---- MODULE Spec2Model ----
(***************************************************************************)
(* A model of the terminal engine of MCP-Terminal-Bridge:                  *)
(*   - the ScreenBuffer and its ANSIParser (internal/terminal),            *)
(*   - the Session with its PTYWrapper and readLoop (internal/session),    *)
(*   - the session Manager (internal/session/manager.go).                  *)
(* Three specifications share the module: SpecScreen (the screen and the   *)
(* parser, sequential), SpecSession (one Session, its PTYs, its reader     *)
(* goroutines and the controller tasks) and SpecRegistry (the Manager and  *)
(* the controller tasks that go through it).                               *)
(***************************************************************************)
EXTENDS Integers, Sequences, FiniteSets, TLC

VARIABLES
    sb,         \* the ScreenBuffer with its ANSIParser (one record)
    prev,       \* the ScreenBuffer before the last operation (history)
    lastOp,     \* the last Screen operation applied (history)
    nops,       \* number of Screen operations applied so far (budget)
    \* one Session (SpecSession)
    State,      \* Session.State
    PTY,        \* Session.PTY: which PTYWrapper the field points to
    LastActive, \* Session.LastActive
    mu,         \* Session.mu: the task holding it, or 0
    ptys,       \* the PTYWrapper objects allocated so far
    rd,         \* the readLoop goroutines, one per started PTYWrapper
    pc,         \* where each controller task stands
    lastCtl,    \* the controller operation that returned last (history)
    res,        \* what the last SendKeys, Resize, GetScreen or Stop returned (history)
    \* the Manager (SpecRegistry)
    sessions,   \* the keys of Manager.sessions
    mmu,        \* Manager.mu: its writer, or 0, and its readers
    objs,       \* the Sessions on the heap, by ID
    nextID,     \* the ID the next Session gets
    rpc,        \* where each task stands in its Manager or handler call
    last,       \* the Manager call that returned last (history)
    now         \* the clock, time.Now()

screenVars == <<sb, prev, lastOp, nops>>
sessionVars == <<State, PTY, LastActive, mu, ptys, rd, pc, lastCtl, res>>
registryVars == <<sessions, mmu, objs, nextID, rpc, last>>
vars == <<screenVars, sessionVars, registryVars, now>>

-----------------------------------------------------------------------------
(* Bounds of the model *)

MaxDim == 2          \* widths and heights range over 1..MaxDim
MaxOps == 2          \* writes to a ScreenBuffer per behaviour
NumTasks == 2        \* controller tasks calling into one Session
MaxPTYs == 3         \* PTYWrappers a Session allocates (restarts + 1)
MaxTime == 1         \* the clock runs from 0 to MaxTime
MaxIds == 3          \* Sessions a Manager creates
MaxKeys == 1         \* Write calls that reach one PTYWrapper
MaxLines == 30       \* lines "L1\n", "L2\n", ... written to one ScreenBuffer
LinesWidth == 5      \* the widest grid the lines are written to
LinesHeight == 3     \* the highest grid the lines are written to
IntMax == 999        \* the largest int (a scaled-down math.MaxInt64)

(* Program constants, scaled *)
maxScrollback == 2   \* ScreenBuffer.maxScrollback (1000 in the source)
maxRawDataSize == 8  \* ScreenBuffer.maxRawDataSize (1 MiB in the source)
resizeChanCap == 1   \* the capacity of PTYWrapper.resizeChan
maxSessions == 2     \* Manager.maxSessions (100 in the source)
sessionTimeout == 0  \* Manager.sessionTimeout, in ticks of the clock (30 minutes in the source)

-----------------------------------------------------------------------------
(* Go's int: arithmetic wraps around silently *)

WrapInt(x) == ((x + IntMax + 1) % (2 * IntMax + 2)) - (IntMax + 1)

Min(a, b) == IF a < b THEN a ELSE b

(* bytes used below *)
ESC == 27
BEL == 7
BS == 8
TAB == 9
LF == 10
CR == 13
SPACE == 32

-----------------------------------------------------------------------------
(* Cell, Color, Attributes *)

DefaultColor == [R |-> 0, G |-> 0, B |-> 0, Default |-> TRUE]

RGB(r, g, b) == [R |-> r, G |-> g, B |-> b, Default |-> FALSE]

NoAttributes == {}

MkCell(r, fg, bg, attrs) ==
    [Rune |-> r, Foreground |-> fg, Background |-> bg, Attributes |-> attrs]

(* the cell every blanking loop of the source writes; note that the literal
   leaves Attributes at its zero value *)
BlankCell == MkCell(SPACE, DefaultColor, DefaultColor, NoAttributes)

BlankRow(width) == [x \in 0 .. width - 1 |-> BlankCell]

-----------------------------------------------------------------------------
(* The grid.  sb.cells is a slice of row slices: cells[y] is a reference to
   the storage of a row, and two entries may refer to the same storage.
   cells : 0..height-1 -> reference, store : reference -> row. *)

LiveRefs(cells) == {cells[y] : y \in DOMAIN cells}

(* a reference that no entry of cells uses: what make([]Cell, n) returns *)
FreshRef(cells) ==
    CHOOSE r \in 1 .. Cardinality(DOMAIN cells) + 1 : r \notin LiveRefs(cells)

(* drop the storage no entry refers to any more (garbage) *)
Collect(s) ==
    [s EXCEPT !.store = [r \in LiveRefs(s.cells) |-> s.store[r]]]

CellAt(s, x, y) == s.store[s.cells[y]][x]

-----------------------------------------------------------------------------
(* ScreenBuffer *)

NoSavedCursor == [saved |-> FALSE]

(* NewScreenBuffer(width, height) with its NewANSIParser *)
NewScreenBuffer(width, height) ==
    [ cells |-> [y \in 0 .. height - 1 |-> y + 1],
      store |-> [r \in 1 .. height |-> BlankRow(width)],
      width |-> width,
      height |-> height,
      cursorX |-> 0,
      cursorY |-> 0,
      scrollback |-> [i \in 0 .. maxScrollback - 1 |-> <<>>],
      scrollbackStart |-> 0,
      rawData |-> <<>>,
      state |-> "stateNormal",
      escapeBuffer |-> <<>>,
      currentFG |-> DefaultColor,
      currentBG |-> DefaultColor,
      currentAttrs |-> NoAttributes,
      savedCursor |-> NoSavedCursor,
      panicked |-> FALSE,
      stream |-> <<>>,
      evicted |-> <<>> ]

(* a run-time panic (index out of range): the process dies where it stands *)
Panic(s) == [s EXCEPT !.panicked = TRUE]

storeRawData_KeepsHead(s, data) ==
    LET all == s.rawData \o data
        trimPoint == maxRawDataSize \div 4
    IN  [s EXCEPT !.stream = @ \o data,
                  !.rawData =
            IF Len(all) > maxRawDataSize
            THEN SubSeq(all, 1, Len(all) - trimPoint)
            ELSE all]

(* rawData = append(rawData, data...), then one trim of maxRawDataSize/4.
   stream is history: every byte given to Write since the last ClearRawData. *)
storeRawData(s, data) ==
    LET all == s.rawData \o data
        trimPoint == maxRawDataSize \div 4
    IN  [s EXCEPT !.stream = @ \o data,
                  !.rawData =
            IF Len(all) > maxRawDataSize
            THEN SubSeq(all, trimPoint + 1, Len(all))
            ELSE all]

ClearRawData_Keeps(s) == s

ClearRawData(s) == [s EXCEPT !.rawData = <<>>, !.stream = <<>>]

SetCell(s, x, y, r, fg, bg, attrs) ==
    IF x < 0 \/ x >= s.width \/ y < 0 \/ y >= s.height
    THEN s
    ELSE [s EXCEPT !.store[s.cells[y]][x] = MkCell(r, fg, bg, attrs)]

(* mutant of MoveCursor: the clamp to the right and bottom edges is missing *)
MoveCursor_NoUpperClamp(s, x, y) ==
    [s EXCEPT !.cursorX = IF x < 0 THEN 0 ELSE x,
              !.cursorY = IF y < 0 THEN 0 ELSE y]

MoveCursor(s, x, y) ==
    LET x1 == IF x < 0 THEN 0 ELSE x
        x2 == IF x1 >= s.width THEN s.width - 1 ELSE x1
        y1 == IF y < 0 THEN 0 ELSE y
        y2 == IF y1 >= s.height THEN s.height - 1 ELSE y1
    IN  [s EXCEPT !.cursorX = x2, !.cursorY = y2]

Clear(s) ==
    ClearRawData(
        [s EXCEPT !.store = [r \in DOMAIN s.store |-> BlankRow(s.width)],
                  !.cursorX = 0,
                  !.cursorY = 0])

ClearLine(s, y) ==
    IF y < 0 \/ y >= s.height
    THEN s
    ELSE [s EXCEPT !.store[s.cells[y]] = BlankRow(s.width)]

(* ClearLine(i) for every i of the set ys, in any order *)
ClearLines(s, ys) ==
    LET refs == {s.cells[y] : y \in ys \cap (0 .. s.height - 1)}
    IN  [s EXCEPT !.store = [r \in DOMAIN s.store |->
                                IF r \in refs THEN BlankRow(s.width) ELSE s.store[r]]]

(* evicted is history: every row that was given to addToScrollback *)
addToScrollback(s, line) ==
    IF maxScrollback = 0
    THEN s
    ELSE LET index == s.scrollbackStart % maxScrollback
         IN  [s EXCEPT !.scrollback[index] = line,
                       !.scrollbackStart = s.scrollbackStart + 1,
                       !.evicted = Append(@, line)]

GetScrollback_RingOrder(s) ==
    [i \in 1 .. Min(s.scrollbackStart, maxScrollback) |-> s.scrollback[i - 1]]

(* ScreenBuffer.GetScrollback; nil is the empty sequence.  The operand of %
   is never negative here, so the index < 0 branch is not taken. *)
GetScrollback(s) ==
    IF s.scrollbackStart = 0
    THEN <<>>
    ELSE LET lineCount == Min(s.scrollbackStart, maxScrollback)
         IN  [i \in 1 .. lineCount |->
                s.scrollback[(s.scrollbackStart - lineCount + (i - 1)) % maxScrollback]]

ScrollUp(s) ==
    LET s1 == addToScrollback(s, s.store[s.cells[0]])
        h == s.height
        shifted == [y \in 0 .. h - 1 |-> IF y < h - 1 THEN s.cells[y + 1] ELSE s.cells[y]]
        kept == {shifted[y] : y \in 0 .. h - 2}
        fresh == CHOOSE r \in 1 .. h + 1 : r \notin kept
        cells2 == [shifted EXCEPT ![h - 1] = fresh]
    IN  [s1 EXCEPT !.cells = cells2,
                   !.store = [r \in LiveRefs(cells2) |->
                                 IF r = fresh THEN BlankRow(s.width) ELSE s.store[r]]]

ScrollDown(s) ==
    LET h == s.height
        shifted == [y \in 0 .. h - 1 |-> IF y > 0 THEN s.cells[y - 1] ELSE s.cells[y]]
        kept == {shifted[y] : y \in 1 .. h - 1}
        fresh == CHOOSE r \in 1 .. h + 1 : r \notin kept
        cells2 == [shifted EXCEPT ![0] = fresh]
    IN  [s EXCEPT !.cells = cells2,
                  !.store = [r \in LiveRefs(cells2) |->
                                IF r = fresh THEN BlankRow(s.width) ELSE s.store[r]]]

Resize_Blank(s, width, height) ==
    [s EXCEPT !.cells = [y \in 0 .. height - 1 |-> y + 1],
              !.store = [r \in 1 .. height |-> BlankRow(width)],
              !.width = width,
              !.height = height,
              !.cursorX = IF s.cursorX >= width THEN width - 1 ELSE s.cursorX,
              !.cursorY = IF s.cursorY >= height THEN height - 1 ELSE s.cursorY]

Resize(s, width, height) ==
    LET minHeight == Min(height, s.height)
        minWidth == Min(width, s.width)
        newRow(y) == [x \in 0 .. width - 1 |->
                         IF y < minHeight /\ x < minWidth THEN CellAt(s, x, y) ELSE BlankCell]
    IN  [s EXCEPT !.cells = [y \in 0 .. height - 1 |-> y + 1],
                  !.store = [r \in 1 .. height |-> newRow(r - 1)],
                  !.width = width,
                  !.height = height,
                  !.cursorX = IF s.cursorX >= width THEN width - 1 ELSE s.cursorX,
                  !.cursorY = IF s.cursorY >= height THEN height - 1 ELSE s.cursorY]

InsertLines(s, y, n0) ==
    IF y < 0 \/ y >= s.height \/ n0 <= 0
    THEN s
    ELSE LET h == s.height
             n == IF WrapInt(y + n0) > h THEN h - y ELSE n0
             lo == WrapInt(y + n)
             moved == {i \in 0 .. h - 1 : i >= lo}
         IN  IF \E i \in moved : i - n < 0
             THEN Panic(s)
             ELSE LET cells2 == [i \in 0 .. h - 1 |->
                                    IF i \in moved THEN s.cells[i - n] ELSE s.cells[i]]
                      s2 == Collect([s EXCEPT !.cells = cells2])
                  IN  ClearLines(s2, {i \in 0 .. h - 1 : i >= y /\ i < lo})

DeleteLines(s, y, n0) ==
    IF y < 0 \/ y >= s.height \/ n0 <= 0
    THEN s
    ELSE LET h == s.height
             n == IF WrapInt(y + n0) > h THEN h - y ELSE n0
             moved == {i \in 0 .. h - 1 : i >= y /\ i < h - n}
             cells2 == [i \in 0 .. h - 1 |->
                           IF i \in moved THEN s.cells[i + n] ELSE s.cells[i]]
             s2 == Collect([s EXCEPT !.cells = cells2])
         IN  ClearLines(s2, {i \in 0 .. h - 1 : i >= h - n})

InsertChars(s, x, y, n0) ==
    IF x < 0 \/ x >= s.width \/ y < 0 \/ y >= s.height \/ n0 <= 0
    THEN s
    ELSE LET w == s.width
             n == IF WrapInt(x + n0) > w THEN w - x ELSE n0
             lo == WrapInt(x + n)
             moved == {i \in 0 .. w - 1 : i >= lo}
             row == s.store[s.cells[y]]
         IN  IF \E i \in moved : i - n < 0
             THEN Panic(s)
             ELSE [s EXCEPT !.store[s.cells[y]] =
                      [i \in 0 .. w - 1 |->
                          IF i >= x /\ i < lo THEN BlankCell
                          ELSE IF i \in moved THEN row[i - n]
                          ELSE row[i]]]

DeleteChars(s, x, y, n0) ==
    IF x < 0 \/ x >= s.width \/ y < 0 \/ y >= s.height \/ n0 <= 0
    THEN s
    ELSE LET w == s.width
             n == IF WrapInt(x + n0) > w THEN w - x ELSE n0
             row == s.store[s.cells[y]]
         IN  IF w - n < 0
             THEN Panic(s)
             ELSE [s EXCEPT !.store[s.cells[y]] =
                      [i \in 0 .. w - 1 |->
                          IF i >= w - n THEN BlankCell
                          ELSE IF i >= x THEN row[i + n]
                          ELSE row[i]]]

-----------------------------------------------------------------------------
(* ANSIParser: parameters *)

IsDigit(b) == b >= 48 /\ b <= 57

(* the value of a string of decimal digits *)
RECURSIVE DigitsValue(_)
DigitsValue(ds) ==
    IF ds = <<>> THEN 0
    ELSE 10 * DigitsValue(SubSeq(ds, 1, Len(ds) - 1)) + (ds[Len(ds)] - 48)

(* strconv.Atoi: an optional sign, at least one digit, nothing else, and the
   value within the int range; anything else is an error *)
Atoi(part) ==
    LET signed == part # <<>> /\ part[1] \in {43, 45}
        ds == IF signed THEN Tail(part) ELSE part
        wellFormed == ds # <<>> /\ \A i \in 1 .. Len(ds) : IsDigit(ds[i])
        neg == signed /\ part[1] = 45
        v == IF wellFormed THEN DigitsValue(ds) ELSE 0
        inRange == IF neg THEN v <= IntMax + 1 ELSE v <= IntMax
    IN  [ok |-> wellFormed /\ inRange, n |-> IF neg THEN 0 - v ELSE v]

(* strings.Split(s, ";") *)
RECURSIVE SplitSemi(_)
SplitSemi(str) ==
    IF \A i \in 1 .. Len(str) : str[i] # 59
    THEN <<str>>
    ELSE LET k == CHOOSE i \in 1 .. Len(str) :
                      str[i] = 59 /\ \A j \in 1 .. i - 1 : str[j] # 59
         IN  <<SubSeq(str, 1, k - 1)>> \o SplitSemi(SubSeq(str, k + 1, Len(str)))

RECURSIVE ParamsOfParts(_)
ParamsOfParts(parts) ==
    IF parts = <<>> THEN <<>>
    ELSE LET part == Head(parts)
             rest == ParamsOfParts(Tail(parts))
         IN  IF part = <<>> THEN <<0>> \o rest
             ELSE IF Atoi(part).ok THEN <<Atoi(part).n>> \o rest
             ELSE rest

parseCSIParams(str) ==
    IF str = <<>> THEN <<>> ELSE ParamsOfParts(SplitSemi(str))

-----------------------------------------------------------------------------
(* ANSIParser: colours *)

ansiToColor(code) ==
    IF code = 0 THEN RGB(0, 0, 0)
    ELSE IF code = 1 THEN RGB(170, 0, 0)
    ELSE IF code = 2 THEN RGB(0, 170, 0)
    ELSE IF code = 3 THEN RGB(170, 85, 0)
    ELSE IF code = 4 THEN RGB(0, 0, 170)
    ELSE IF code = 5 THEN RGB(170, 0, 170)
    ELSE IF code = 6 THEN RGB(0, 170, 170)
    ELSE IF code = 7 THEN RGB(170, 170, 170)
    ELSE DefaultColor

ansiBrightToColor(code) ==
    IF code = 0 THEN RGB(85, 85, 85)
    ELSE IF code = 1 THEN RGB(255, 85, 85)
    ELSE IF code = 2 THEN RGB(85, 255, 85)
    ELSE IF code = 3 THEN RGB(255, 255, 85)
    ELSE IF code = 4 THEN RGB(85, 85, 255)
    ELSE IF code = 5 THEN RGB(255, 85, 255)
    ELSE IF code = 6 THEN RGB(85, 255, 255)
    ELSE IF code = 7 THEN RGB(255, 255, 255)
    ELSE DefaultColor

(* uint8(v) of a non-negative int *)
Uint8(v) == v % 256

ansi256ToColor_Basic(code) == ansiToColor(code % 8)

ansi256ToColor(code) ==
    IF code < 16
    THEN IF code < 8 THEN ansiToColor(code) ELSE ansiBrightToColor(code - 8)
    ELSE IF code < 232
    THEN LET c == code - 16
         IN  RGB(Uint8((c \div 36) * 51), Uint8(((c \div 6) % 6) * 51), Uint8((c % 6) * 51))
    ELSE LET gray == 8 + (code - 232) * 10
         IN  RGB(Uint8(gray), Uint8(gray), Uint8(gray))

SGRSet(code) ==
    IF code = 1 THEN "Bold" ELSE IF code = 3 THEN "Italic"
    ELSE IF code = 4 THEN "Underline" ELSE IF code = 5 THEN "Blink"
    ELSE IF code = 7 THEN "Reverse" ELSE "Hidden"

SGRClear(code) ==
    IF code = 22 THEN "Bold" ELSE IF code = 23 THEN "Italic"
    ELSE IF code = 24 THEN "Underline" ELSE IF code = 25 THEN "Blink"
    ELSE IF code = 27 THEN "Reverse" ELSE "Hidden"

(* the loop of handleSGR from index i (1-based here) on *)
RECURSIVE SGRFrom(_, _, _)
SGRFrom(s, params, i) ==
    IF i > Len(params) THEN s
    ELSE LET c == params[i]
             ext == i + 2 <= Len(params) /\ params[i + 1] = 5
         IN  IF c = 0
             THEN SGRFrom([s EXCEPT !.currentFG = DefaultColor,
                                    !.currentBG = DefaultColor,
                                    !.currentAttrs = NoAttributes], params, i + 1)
             ELSE IF c \in {1, 3, 4, 5, 7, 8}
             THEN SGRFrom([s EXCEPT !.currentAttrs = @ \cup {SGRSet(c)}], params, i + 1)
             ELSE IF c \in {22, 23, 24, 25, 27, 28}
             THEN SGRFrom([s EXCEPT !.currentAttrs = @ \ {SGRClear(c)}], params, i + 1)
             ELSE IF c \in 30 .. 37
             THEN SGRFrom([s EXCEPT !.currentFG = ansiToColor(c - 30)], params, i + 1)
             ELSE IF c = 39
             THEN SGRFrom([s EXCEPT !.currentFG = DefaultColor], params, i + 1)
             ELSE IF c \in 40 .. 47
             THEN SGRFrom([s EXCEPT !.currentBG = ansiToColor(c - 40)], params, i + 1)
             ELSE IF c = 49
             THEN SGRFrom([s EXCEPT !.currentBG = DefaultColor], params, i + 1)
             ELSE IF c = 38 /\ ext
             THEN SGRFrom([s EXCEPT !.currentFG = ansi256ToColor(params[i + 2])],
                          params, i + 3)
             ELSE IF c = 48 /\ ext
             THEN SGRFrom([s EXCEPT !.currentBG = ansi256ToColor(params[i + 2])],
                          params, i + 3)
             ELSE SGRFrom(s, params, i + 1)

handleSGR(s, params) ==
    SGRFrom(s, IF params = <<>> THEN <<0>> ELSE params, 1)

-----------------------------------------------------------------------------
(* ANSIParser: the state machine *)

saveCursor(s) ==
    [s EXCEPT !.savedCursor = [saved |-> TRUE, x |-> s.cursorX, y |-> s.cursorY,
                               fg |-> s.currentFG, bg |-> s.currentBG,
                               attrs |-> s.currentAttrs]]

restoreCursor(s) ==
    IF s.savedCursor.saved
    THEN [MoveCursor(s, s.savedCursor.x, s.savedCursor.y)
             EXCEPT !.currentFG = s.savedCursor.fg,
                    !.currentBG = s.savedCursor.bg,
                    !.currentAttrs = s.savedCursor.attrs]
    ELSE s

(* cursorY++ and the scroll that follows when the cursor leaves the grid *)
LineDown(s) ==
    LET s1 == [s EXCEPT !.cursorY = s.cursorY + 1]
    IN  IF s1.cursorY >= s1.height
        THEN [ScrollUp(s1) EXCEPT !.cursorY = s1.height - 1]
        ELSE s1

handleNormal(s, b) ==
    IF b = ESC THEN [s EXCEPT !.state = "stateEscape", !.escapeBuffer = <<>>]
    ELSE IF b = CR THEN MoveCursor(s, 0, s.cursorY)
    ELSE IF b = LF THEN LineDown(s)
    ELSE IF b = TAB
    THEN LET t == ((s.cursorX \div 8) + 1) * 8
             newX == IF t >= s.width THEN s.width - 1 ELSE t
         IN  MoveCursor(s, newX, s.cursorY)
    ELSE IF b = BS
    THEN IF s.cursorX > 0 THEN MoveCursor(s, s.cursorX - 1, s.cursorY) ELSE s
    ELSE IF b >= 32 /\ b < 127
    THEN LET s1 == SetCell(s, s.cursorX, s.cursorY, b,
                           s.currentFG, s.currentBG, s.currentAttrs)
             s2 == [s1 EXCEPT !.cursorX = s.cursorX + 1]
         IN  IF s2.cursorX >= s2.width
             THEN LineDown([s2 EXCEPT !.cursorX = 0])
             ELSE s2
    ELSE s

handleEscape(s, b) ==
    IF b = 91 THEN [s EXCEPT !.state = "stateCSI", !.escapeBuffer = <<>>]
    ELSE IF b = 93 THEN [s EXCEPT !.state = "stateOSC", !.escapeBuffer = <<>>]
    ELSE IF b = 80 THEN [s EXCEPT !.state = "stateDCS", !.escapeBuffer = <<>>]
    ELSE IF b \in {40, 41, 42, 43}
    THEN [s EXCEPT !.state = "stateCharset", !.escapeBuffer = Append(@, b)]
    ELSE IF b = 99
    THEN [Clear(s) EXCEPT !.currentFG = DefaultColor,
                          !.currentBG = DefaultColor,
                          !.currentAttrs = NoAttributes,
                          !.state = "stateNormal"]
    ELSE IF b = 68 THEN [LineDown(s) EXCEPT !.state = "stateNormal"]
    ELSE IF b = 77
    THEN IF s.cursorY > 0
         THEN [s EXCEPT !.cursorY = s.cursorY - 1, !.state = "stateNormal"]
         ELSE [ScrollDown(s) EXCEPT !.state = "stateNormal"]
    ELSE IF b = 69
    THEN [LineDown([s EXCEPT !.cursorX = 0]) EXCEPT !.state = "stateNormal"]
    ELSE IF b = 55 THEN [saveCursor(s) EXCEPT !.state = "stateNormal"]
    ELSE IF b = 56 THEN [restoreCursor(s) EXCEPT !.state = "stateNormal"]
    ELSE [s EXCEPT !.state = "stateNormal"]

(* n := 1; if len(params) > 0 && params[0] > 0 { n = params[0] } *)
CountParam(params) ==
    IF Len(params) > 0 /\ params[1] > 0 THEN params[1] ELSE 1

(* v := dflt; if len(params) > i { v = params[i] }, i counted from 1 here *)
ParamOr(params, i, dflt) ==
    IF Len(params) >= i THEN params[i] ELSE dflt

(* SetCell(x, y, ' ', currentFG, currentBG, Attributes{}) for every x of xs *)
EraseCells(s, xs, y) ==
    IF y < 0 \/ y >= s.height
    THEN s
    ELSE [s EXCEPT !.store[s.cells[y]] =
             [x \in 0 .. s.width - 1 |->
                 IF x \in xs
                 THEN MkCell(SPACE, s.currentFG, s.currentBG, NoAttributes)
                 ELSE @[x]]]

(* the command of a CSI final byte b with the parsed parameters *)
CSICommand(s, b, params) ==
    LET n == CountParam(params)
        x == s.cursorX
        y == s.cursorY
    IN  IF b = 65 THEN MoveCursor(s, x, y - n)
        ELSE IF b = 66 THEN MoveCursor(s, x, WrapInt(y + n))
        ELSE IF b = 67 THEN MoveCursor(s, WrapInt(x + n), y)
        ELSE IF b = 68 THEN MoveCursor(s, x - n, y)
        ELSE IF b \in {72, 102}
        THEN MoveCursor(s, WrapInt(ParamOr(params, 2, 1) - 1),
                           WrapInt(ParamOr(params, 1, 1) - 1))
        ELSE IF b = 74
        THEN LET mode == ParamOr(params, 1, 0)
             IN  IF mode = 0
                 THEN ClearLines(EraseCells(s, x .. s.width - 1, y),
                                 y + 1 .. s.height - 1)
                 ELSE IF mode = 1
                 THEN EraseCells(ClearLines(s, 0 .. y - 1), 0 .. x, y)
                 ELSE IF mode = 2 THEN Clear(s)
                 ELSE s
        ELSE IF b = 75
        THEN LET mode == ParamOr(params, 1, 0)
             IN  IF mode = 0 THEN EraseCells(s, x .. s.width - 1, y)
                 ELSE IF mode = 1 THEN EraseCells(s, 0 .. x, y)
                 ELSE IF mode = 2 THEN ClearLine(s, y)
                 ELSE s
        ELSE IF b = 109 THEN handleSGR(s, params)
        ELSE IF b = 115 THEN saveCursor(s)
        ELSE IF b = 117 THEN restoreCursor(s)
        ELSE IF b = 76 THEN InsertLines(s, y, n)
        ELSE IF b = 77 THEN DeleteLines(s, y, n)
        ELSE IF b = 80 THEN DeleteChars(s, x, y, n)
        ELSE IF b = 64 THEN InsertChars(s, x, y, n)
        ELSE IF b = 88 THEN EraseCells(s, {x + i : i \in 0 .. n - 1}, y)
        ELSE IF b = 71 THEN MoveCursor(s, WrapInt(ParamOr(params, 1, 1) - 1), y)
        ELSE IF b = 100 THEN MoveCursor(s, x, WrapInt(ParamOr(params, 1, 1) - 1))
        ELSE s

handleCSI_Prints(s, b) == handleNormal([s EXCEPT !.state = "stateNormal"], b)

handleCSI(s, b) ==
    IF b >= 32 /\ b <= 63
    THEN [s EXCEPT !.escapeBuffer = Append(@, b)]
    ELSE LET r == CSICommand(s, b, parseCSIParams(s.escapeBuffer))
         IN  IF r.panicked THEN r ELSE [r EXCEPT !.state = "stateNormal"]

EndsWithESC(buf) == Len(buf) > 0 /\ buf[Len(buf)] = ESC

handleOSC(s, b) ==
    IF b = BEL THEN [s EXCEPT !.state = "stateNormal"]
    ELSE IF b = ESC THEN [s EXCEPT !.escapeBuffer = Append(@, b)]
    ELSE IF b = 92 /\ EndsWithESC(s.escapeBuffer) THEN [s EXCEPT !.state = "stateNormal"]
    ELSE [s EXCEPT !.escapeBuffer = Append(@, b)]

handleDCS(s, b) ==
    IF b = ESC THEN [s EXCEPT !.escapeBuffer = Append(@, b)]
    ELSE IF b = 92 /\ EndsWithESC(s.escapeBuffer) THEN [s EXCEPT !.state = "stateNormal"]
    ELSE [s EXCEPT !.escapeBuffer = Append(@, b)]

handleCharset(s, b) == [s EXCEPT !.state = "stateNormal"]

ParseByte(s, b) ==
    IF s.state = "stateNormal" THEN handleNormal(s, b)
    ELSE IF s.state = "stateEscape" THEN handleEscape(s, b)
    ELSE IF s.state = "stateCSI" THEN handleCSI(s, b)
    ELSE IF s.state = "stateOSC" THEN handleOSC(s, b)
    ELSE IF s.state = "stateDCS" THEN handleDCS(s, b)
    ELSE handleCharset(s, b)

(* ANSIParser.Parse: byte by byte; a panic ends the process *)
RECURSIVE Parse(_, _)
Parse(s, data) ==
    IF data = <<>> \/ s.panicked THEN s
    ELSE Parse(ParseByte(s, Head(data)), Tail(data))

Write_FreshParser(s, data) ==
    Parse([storeRawData(s, data) EXCEPT !.state = "stateNormal"], data)

(* ScreenBuffer.Write *)
Write(s, data) == Parse(storeRawData(s, data), data)

(* renderPlain before strings.TrimRight: the runes of the rows, a line feed
   after every row but the last *)
RECURSIVE PlainFrom(_, _)
PlainFrom(s, y) ==
    IF y >= s.height THEN <<>>
    ELSE [x \in 1 .. s.width |-> CellAt(s, x - 1, y).Rune]
         \o (IF y < s.height - 1 THEN <<LF>> ELSE <<>>)
         \o PlainFrom(s, y + 1)

(* strings.TrimRight(str, " \n") *)
RECURSIVE TrimRight(_)
TrimRight(str) ==
    IF str # <<>> /\ str[Len(str)] \in {SPACE, LF}
    THEN TrimRight(SubSeq(str, 1, Len(str) - 1))
    ELSE str

renderPlain(s) == TrimRight(PlainFrom(s, 0))

renderPassthrough(s) == s.rawData

(* ScreenBuffer.Render for "plain", "passthrough" and a format it does not
   know; the cases "raw", "ansi" and "scrollback" are not modelled *)
Render(s, format) ==
    CASE format = "plain" -> renderPlain(s)
      [] format = "passthrough" -> renderPassthrough(s)
      [] OTHER -> renderPlain(s)

-----------------------------------------------------------------------------
(* PTYWrapper.  pty is the *os.File of the master side (reader and writer wrap
   it, and are nil exactly when it is), process the child, stopChan the
   channel Stop closes, size the Winsize the wrapper remembers, resizeChan the
   channel of capacity 1, mu the task that holds the wrapper's mutex, or 0.
   Next to the fields of the struct: winsize is the window size the kernel
   has for the terminal, written counts the Write calls that reached it, and
   hr and newSize are the position and the local variable of the wrapper's
   handleResize goroutine. *)

(* the Winsize of NewPTYWrapper: 24 rows, 80 columns, scaled *)
DefaultSize == [Rows |-> MaxDim, Cols |-> MaxDim]

NoSize == [Rows |-> 0, Cols |-> 0]

NewPTYWrapper ==
    [pty |-> "nil", process |-> "nil", stopChan |-> "open",
     size |-> DefaultSize, resizeChan |-> <<>>, mu |-> 0,
     winsize |-> NoSize, written |-> 0, hr |-> "None", newSize |-> NoSize,
     kills |-> 0, closes |-> 0]

(* PTYWrapper.Start when pty.StartWithSize succeeds; it launches handleResize *)
Start(p) ==
    [p EXCEPT !.pty = "open", !.process = "running", !.winsize = p.size, !.hr = "Select"]

AlreadyStopped_Never(p) == FALSE

(* PTYWrapper.Stop: case <-p.stopChan, "Already stopped" *)
AlreadyStopped(p) == p.stopChan = "closed"

(* PTYWrapper.Stop.  kills and closes count the Kill and Wait of the child
   and the Close of the master side.  closeFails: the operating system reports an error for the
   close of the master side; the descriptor is gone in either case. *)
Stop(p, closeFails) ==
    IF AlreadyStopped(p)
    THEN [p |-> p, err |-> FALSE]
    ELSE [p |-> [p EXCEPT !.stopChan = "closed",
                          !.process = IF @ = "nil" THEN "nil" ELSE "reaped",
                          !.kills = IF p.process = "nil" THEN @ ELSE @ + 1,
                          !.pty = IF @ = "nil" THEN "nil" ELSE "closed",
                          !.closes = IF p.pty = "nil" THEN @ ELSE @ + 1],
          err |-> p.pty # "nil" /\ closeFails]

(* PTYWrapper.Resize: the select between the send on resizeChan, the receive
   from stopChan and default.  Go takes any of the cases that are ready, and
   default when none is: the request is then dropped and nil returned. *)
PTYResize(p, newSize) ==
    LET sendReady == Len(p.resizeChan) < resizeChanCap
        stopReady == p.stopChan = "closed"
    IN  IF ~sendReady /\ ~stopReady
        THEN {[p |-> p, err |-> FALSE]}
        ELSE (IF sendReady
              THEN {[p |-> [p EXCEPT !.resizeChan = Append(@, newSize)], err |-> FALSE]}
              ELSE {})
             \cup (IF stopReady THEN {[p |-> p, err |-> TRUE]} ELSE {})

(* PTYWrapper.Write up to the write on the master side: "PTY not started"
   without a writer, an error on a closed file *)
PTYWrite(p) ==
    IF p.pty # "open"
    THEN [p |-> p, err |-> TRUE]
    ELSE [p |-> [p EXCEPT !.written = @ + 1], err |-> FALSE]

-----------------------------------------------------------------------------
(* Session: the controller tasks, the readLoop goroutines, the child *)

Tasks == 1 .. NumTasks

(* nothing has returned yet *)
NoResult == [op |-> "none", out |-> "none", size |-> NoSize, stopped |-> FALSE]

(* what the child prints: "x\n\n", which scrolls a grid of MaxDim rows *)
ChildOutput == { <<120, LF, LF>> }

(* the readLoop goroutines that have been started and have not returned *)
LiveReaders == { r \in DOMAIN rd : rd[r].pc \in {"Read", "InRead", "Lock"} }

(* Session.Restart up to the call of start(): Lock, PTY.Stop, Buffer.Clear,
   NewPTYWrapper, the three assignments.  When Stop fails Restart returns. *)
RestartStop(t) ==
    /\ pc[t] = "idle" /\ mu = 0
    /\ Len(ptys) < MaxPTYs
    /\ \E closeFails \in BOOLEAN :
        LET r == Stop(ptys[PTY], closeFails) IN
        IF r.err
        THEN /\ ptys' = [ptys EXCEPT ![PTY] = r.p]
             /\ lastCtl' = "RestartErr"
             /\ UNCHANGED <<State, PTY, LastActive, mu, rd, pc, sb>>
        ELSE /\ ptys' = Append([ptys EXCEPT ![PTY] = r.p], NewPTYWrapper)
             /\ rd' = Append(rd, [pc |-> "None", cur |-> 0])
             /\ sb' = Clear(sb)
             /\ PTY' = Len(ptys) + 1
             /\ State' = "StateActive"
             /\ LastActive' = now
             /\ mu' = t
             /\ pc' = [pc EXCEPT ![t] = "Restart_start"]
             /\ UNCHANGED lastCtl
    /\ UNCHANGED <<now, res, prev, lastOp, nops>>

(* Session.start inside Restart: PTY.Start and go s.readLoop(), or the error
   of pty.StartWithSize and State = StateError *)
RestartStart(t) ==
    /\ pc[t] = "Restart_start"
    /\ \/ /\ ptys' = [ptys EXCEPT ![PTY] = Start(@)]
          /\ rd' = [rd EXCEPT ![PTY] = [pc |-> "Read", cur |-> 0]]
          /\ pc' = [pc EXCEPT ![t] = "Restart_sleep"]
          /\ UNCHANGED State
       \/ /\ State' = "StateError"
          /\ pc' = [pc EXCEPT ![t] = "Restart_failed"]
          /\ UNCHANGED <<ptys, rd>>
    /\ UNCHANGED <<PTY, LastActive, mu, lastCtl, res, now, screenVars>>

(* the end of Restart: the 50 ms sleep is over, the deferred Unlock runs *)
RestartReturn(t) ==
    /\ pc[t] \in {"Restart_sleep", "Restart_failed"}
    /\ mu' = 0
    /\ lastCtl' = IF pc[t] = "Restart_sleep" THEN "RestartOK" ELSE "RestartErr"
    /\ pc' = [pc EXCEPT ![t] = "idle"]
    /\ UNCHANGED <<State, PTY, LastActive, ptys, rd, res, now, screenVars>>

IsActive_Always(st) == TRUE

(* s.State != StateActive, negated *)
IsActive(st) == st = "StateActive"

(* what the last call of an operation returned, and whether the PTYWrapper
   of the Session was stopped when the call began *)
Returned(op, out, size) ==
    [op |-> op, out |-> out, size |-> size,
     stopped |-> ptys[PTY].stopChan = "closed"]

(* Session.Close is called while another method holds s.mu: s.mu.Lock()
   blocks *)
CloseBlocked(t) ==
    /\ pc[t] = "idle" /\ mu # 0
    /\ pc' = [pc EXCEPT ![t] = "Close_lock"]
    /\ UNCHANGED <<State, PTY, LastActive, mu, ptys, rd, lastCtl, res, now, screenVars>>

(* Session.Close, from s.mu.Lock() succeeding to the deferred Unlock *)
Close(t) ==
    /\ pc[t] \in {"idle", "Close_lock"} /\ mu = 0
    /\ pc' = [pc EXCEPT ![t] = "idle"]
    /\ State' = "StateStopped"
    /\ \E closeFails \in BOOLEAN :
        LET r == Stop(ptys[PTY], closeFails) IN
        /\ ptys' = [ptys EXCEPT ![PTY] = r.p]
        /\ res' = Returned("Close", IF r.err THEN "error" ELSE "ok", NoSize)
    /\ lastCtl' = "Close"
    /\ UNCHANGED <<PTY, LastActive, mu, rd, now, screenVars>>

(* readLoop: data, err := s.PTY.Read().  The field s.PTY is loaded without
   s.mu; a PTYWrapper that was never started answers "PTY not started". *)
ReadCall(r) ==
    /\ rd[r].pc = "Read"
    /\ rd' = [rd EXCEPT ![r] = IF ptys[PTY].pty = "nil"
                               THEN [pc |-> "Lock", cur |-> PTY]
                               ELSE [pc |-> "InRead", cur |-> PTY]]
    /\ UNCHANGED <<State, PTY, LastActive, mu, ptys, pc, lastCtl, res, now, screenVars>>

(* readLoop: the read returns bytes of the child; s.Buffer.Write(data) *)
ReadDataFrom(r, outputs) ==
    /\ rd[r].pc = "InRead"
    /\ ptys[rd[r].cur].pty = "open" /\ ptys[rd[r].cur].process = "running"
    /\ nops < MaxOps
    /\ \E data \in outputs : sb' = Write(sb, data)
    /\ nops' = nops + 1
    /\ rd' = [rd EXCEPT ![r].pc = "Read"]
    /\ UNCHANGED <<State, PTY, LastActive, mu, ptys, pc, lastCtl, res, now, prev, lastOp>>

ReadData(r) == ReadDataFrom(r, ChildOutput)

(* readLoop: the read fails, because the master side was closed or because
   the child is gone (EOF) *)
ReadError(r) ==
    /\ rd[r].pc = "InRead"
    /\ ptys[rd[r].cur].pty = "closed" \/ ptys[rd[r].cur].process # "running"
    /\ rd' = [rd EXCEPT ![r].pc = "Lock"]
    /\ UNCHANGED <<State, PTY, LastActive, mu, ptys, pc, lastCtl, res, now, screenVars>>

ReadLoopExit_KeepsState(r) ==
    /\ rd[r].pc = "Lock" /\ mu = 0
    /\ rd' = [rd EXCEPT ![r].pc = "Done"]
    /\ UNCHANGED <<State, PTY, LastActive, mu, ptys, pc, lastCtl, res, now, screenVars>>

(* readLoop: s.mu.Lock(); s.State = StateError; s.mu.Unlock(); return *)
ReadLoopExit(r) ==
    /\ rd[r].pc = "Lock" /\ mu = 0
    /\ State' = "StateError"
    /\ rd' = [rd EXCEPT ![r].pc = "Done"]
    /\ UNCHANGED <<PTY, LastActive, mu, ptys, pc, lastCtl, res, now, screenVars>>

(* the child of a PTYWrapper exits by itself *)
ChildExit(p) ==
    /\ ptys[p].process = "running"
    /\ ptys' = [ptys EXCEPT ![p].process = "exited"]
    /\ UNCHANGED <<State, PTY, LastActive, mu, rd, pc, lastCtl, res, now, screenVars>>

(* time passes *)
Tick ==
    /\ now < MaxTime
    /\ now' = now + 1
    /\ UNCHANGED <<State, PTY, LastActive, mu, ptys, rd, pc, lastCtl, res, screenVars>>

(* handleResize: case newSize := <-p.resizeChan *)
HandleResizeRecv(p) ==
    /\ ptys[p].hr = "Select"
    /\ ptys[p].resizeChan # <<>>
    /\ ptys' = [ptys EXCEPT ![p].hr = "Got",
                            ![p].newSize = Head(ptys[p].resizeChan),
                            ![p].resizeChan = Tail(ptys[p].resizeChan)]
    /\ UNCHANGED <<State, PTY, LastActive, mu, rd, pc, lastCtl, res, now, screenVars>>

(* handleResize: p.mu.Lock(); p.size = newSize; pty.Setsize, which fails on a
   closed file; p.mu.Unlock() *)
HandleResizeApply(p) ==
    /\ ptys[p].hr = "Got"
    /\ ptys[p].mu = 0
    /\ ptys' = [ptys EXCEPT ![p] =
            IF @.pty = "nil"
            THEN [@ EXCEPT !.hr = "Select", !.newSize = NoSize]
            ELSE [@ EXCEPT !.hr = "Select", !.newSize = NoSize,
                           !.size = ptys[p].newSize,
                           !.winsize = IF ptys[p].pty = "open"
                                       THEN ptys[p].newSize ELSE @]]
    /\ UNCHANGED <<State, PTY, LastActive, mu, rd, pc, lastCtl, res, now, screenVars>>

(* handleResize: case <-p.stopChan: return *)
HandleResizeStop(p) ==
    /\ ptys[p].hr = "Select"
    /\ ptys[p].stopChan = "closed"
    /\ ptys' = [ptys EXCEPT ![p].hr = "Done"]
    /\ UNCHANGED <<State, PTY, LastActive, mu, rd, pc, lastCtl, res, now, screenVars>>

(* Session.SendKeys up to the write on the master side, which returns at once
   or blocks until the child has read *)
SendKeys(t) ==
    /\ pc[t] = "idle" /\ mu = 0
    /\ IF ~IsActive(State)
       THEN /\ res' = Returned("SendKeys", "notactive", NoSize)
            /\ UNCHANGED <<ptys, mu, pc>>
       ELSE LET w == PTYWrite(ptys[PTY]) IN
            IF w.err
            THEN /\ res' = Returned("SendKeys", "error", NoSize)
                 /\ UNCHANGED <<ptys, mu, pc>>
            ELSE /\ ptys[PTY].written < MaxKeys
                 /\ ptys[PTY].mu = 0
                 /\ \/ /\ ptys' = [ptys EXCEPT ![PTY] = w.p]
                       /\ res' = Returned("SendKeys", "ok", NoSize)
                       /\ UNCHANGED <<mu, pc>>
                    \/ /\ ptys' = [ptys EXCEPT ![PTY] = [w.p EXCEPT !.mu = t]]
                       /\ mu' = t
                       /\ pc' = [pc EXCEPT ![t] = "SendKeys_write"]
                       /\ UNCHANGED res
    /\ UNCHANGED <<State, PTY, LastActive, rd, lastCtl, now, screenVars>>

(* Session.SendKeys: the child has read, or is gone; the write, Flush and
   the deferred Unlocks *)
SendKeysReturn(t) ==
    /\ pc[t] = "SendKeys_write"
    /\ ptys' = [ptys EXCEPT ![PTY].mu = 0]
    /\ mu' = 0
    /\ pc' = [pc EXCEPT ![t] = "idle"]
    /\ res' = Returned("SendKeys", "ok", NoSize)
    /\ UNCHANGED <<State, PTY, LastActive, rd, lastCtl, now, screenVars>>

(* Session.Resize *)
SessionResize(t, width, height) ==
    /\ pc[t] = "idle" /\ mu = 0
    /\ IF ~IsActive(State)
       THEN /\ res' = Returned("Resize", "notactive", NoSize)
            /\ UNCHANGED <<ptys, sb, nops>>
       ELSE \E r \in PTYResize(ptys[PTY], [Rows |-> height, Cols |-> width]) :
            IF r.err
            THEN /\ res' = Returned("Resize", "error", NoSize)
                 /\ UNCHANGED <<ptys, sb, nops>>
            ELSE /\ nops < MaxOps
                 /\ ptys' = [ptys EXCEPT ![PTY] = r.p]
                 /\ sb' = Resize(sb, width, height)
                 /\ nops' = nops + 1
                 /\ res' = Returned("Resize", "ok", [Rows |-> height, Cols |-> width])
    /\ UNCHANGED <<State, PTY, LastActive, mu, rd, pc, lastCtl, now, prev, lastOp>>

(* Session.GetScreen *)
GetScreen(t) ==
    /\ pc[t] = "idle" /\ mu = 0
    /\ res' = Returned("GetScreen",
                       IF State # "StateActive" THEN "notactive" ELSE "ok", NoSize)
    /\ UNCHANGED <<State, PTY, LastActive, mu, ptys, rd, pc, lastCtl, now, screenVars>>

(* NewSession returned: the first PTYWrapper is started and read from *)
NewSession ==
    /\ State = "StateActive"
    /\ PTY = 1
    /\ LastActive = 0
    /\ mu = 0
    /\ ptys = <<Start(NewPTYWrapper)>>
    /\ rd = <<[pc |-> "Read", cur |-> 0]>>
    /\ pc = [t \in Tasks |-> "idle"]
    /\ lastCtl = "NewSession"
    /\ res = NoResult

-----------------------------------------------------------------------------
(* Manager.  A Session is here the record of its State, its LastActive, its
   mutex and its current PTYWrapper: the PTYWrappers it had before are
   stopped, since Restart replaces s.PTY only after PTY.Stop returned nil. *)

(* the Session NewSession returns at time t0 *)
SessionOf(t0) ==
    [State |-> "StateActive", LastActive |-> t0, PTY |-> Start(NewPTYWrapper), mu |-> 0]

PTYStart_LeaksHandler(p, spawnFails) ==
    IF spawnFails
    THEN [p |-> [p EXCEPT !.hr = "Select"], err |-> TRUE]
    ELSE [p |-> Start(p), err |-> FALSE]

(* PTYWrapper.Start: pty.StartWithSize fails and Start returns its error
   before it sets a field or starts handleResize, or it succeeds *)
PTYStart(p, spawnFails) ==
    IF spawnFails
    THEN [p |-> p, err |-> TRUE]
    ELSE [p |-> Start(p), err |-> FALSE]

(* Session.start: PTY.Start, then go s.readLoop() unless Start failed *)
SessionStart(s, spawnFails) ==
    LET r == PTYStart(s.PTY, spawnFails)
    IN  [s |-> [s EXCEPT !.PTY = r.p], err |-> r.err, readLoop |-> ~r.err]

(* NewSession at time t0: the Session it builds, the error of start, and
   whether a readLoop goroutine was started *)
NewSessionAt(t0, spawnFails) ==
    SessionStart([State |-> "StateActive", LastActive |-> t0,
                  PTY |-> NewPTYWrapper, mu |-> 0], spawnFails)

(* the goroutines NewSession has left running *)
Goroutines(r) ==
    (IF r.readLoop THEN {"readLoop"} ELSE {})
    \cup (IF r.s.PTY.hr \in {"Select", "Got"} THEN {"handleResize"} ELSE {})

(* Session.Close on such a record *)
SessionClose(s, closeFails) ==
    LET r == Stop(s.PTY, closeFails)
    IN  [s |-> [s EXCEPT !.State = "StateStopped", !.PTY = r.p], err |-> r.err]

(* mutant of AtCapacity: the comparison lets one Session too many in *)
AtCapacity_Above(n) == n > maxSessions

(* len(m.sessions) >= m.maxSessions *)
AtCapacity(n) == n >= maxSessions

(* mutant of IsIdle: a Session is idle as soon as it reaches the timeout *)
IsIdle_AtTimeout(idleTime) == idleTime >= sessionTimeout

(* idleTime > m.sessionTimeout *)
IsIdle(idleTime) == idleTime > sessionTimeout

(* a task outside every call: op is where it stands, id the Session it works
   on; todo, at, idleTime and cleaned belong to CleanupIdleSessions: the
   entries still to visit, its now, the idleTime it computed last and its
   count of closed Sessions *)
Idle == [op |-> "idle", id |-> 0, todo |-> {}, at |-> 0, idleTime |-> 0, cleaned |-> 0]

At(op, id) == [Idle EXCEPT !.op = op, !.id = id]

IDs == 1 .. MaxIds

(* The heap keeps a Session while m.sessions or a task refers to it, and while
   its child runs: the goroutines that serve the child refer to it. *)
Referenced(id, ss, pcs) ==
    id \in ss \/ \E t \in Tasks : pcs[t].op # "idle" /\ pcs[t].id = id

Reclaim(o, ss, pcs) ==
    [id \in {i \in DOMAIN o : Referenced(i, ss, pcs) \/ o[i].PTY.process = "running"}
        |-> o[id]]

(* m.mu is free for Lock *)
CanLock == mmu.w = 0 /\ mmu.r = {}

(* the task holds m.mu, for writing or for reading *)
HoldsGuard(t) == mmu.w = t \/ t \in mmu.r

(* CreateSession: Lock and the capacity check *)
CreateSessionLock(t) ==
    /\ rpc[t].op = "idle" /\ CanLock
    /\ IF AtCapacity(Cardinality(sessions))
       THEN /\ last' = [op |-> "create", id |-> 0, out |-> "capacity"]
            /\ UNCHANGED <<sessions, mmu, objs, rpc>>
       ELSE /\ nextID <= MaxIds
            /\ mmu' = [mmu EXCEPT !.w = t]
            /\ rpc' = [rpc EXCEPT ![t] = At("Create_new", 0)]
            /\ UNCHANGED <<sessions, objs, last>>
    /\ UNCHANGED <<nextID, now>>

(* CreateSession: NewSession, the insertion, the deferred Unlock *)
CreateSessionNew(t) ==
    /\ rpc[t].op = "Create_new"
    /\ \E spawnFails \in BOOLEAN :
        LET r == NewSessionAt(now, spawnFails) IN
        IF r.err
        THEN /\ last' = [op |-> "create", id |-> 0, out |-> "spawn",
                         left |-> Goroutines(r)]
             /\ UNCHANGED <<sessions, objs, nextID>>
        ELSE /\ objs' = [id \in DOMAIN objs \cup {nextID} |->
                            IF id = nextID THEN r.s ELSE objs[id]]
             /\ sessions' = sessions \cup {nextID}
             /\ nextID' = nextID + 1
             /\ last' = [op |-> "create", id |-> nextID, out |-> "ok"]
    /\ mmu' = [mmu EXCEPT !.w = 0]
    /\ rpc' = [rpc EXCEPT ![t] = Idle]
    /\ UNCHANGED now

(* GetSession: RLock and the lookup *)
GetSessionLock(t, id) ==
    /\ rpc[t].op = "idle" /\ mmu.w = 0
    /\ IF id \notin sessions
       THEN /\ last' = [op |-> "get", id |-> id, out |-> "notfound"]
            /\ UNCHANGED <<mmu, rpc>>
       ELSE /\ mmu' = [mmu EXCEPT !.r = @ \cup {t}]
            /\ rpc' = [rpc EXCEPT ![t] = At("Get_update", id)]
            /\ UNCHANGED last
    /\ UNCHANGED <<sessions, objs, nextID, now>>

(* GetSession: session.UpdateLastActive(), the deferred RUnlock; the caller
   now holds the *Session *)
GetSessionUpdate(t) ==
    /\ rpc[t].op = "Get_update"
    /\ objs[rpc[t].id].mu = 0
    /\ objs' = [objs EXCEPT ![rpc[t].id].LastActive = now]
    /\ mmu' = [mmu EXCEPT !.r = @ \ {t}]
    /\ rpc' = [rpc EXCEPT ![t] = At("Have", rpc[t].id)]
    /\ UNCHANGED <<sessions, nextID, last, now>>

(* a handler that got its *Session returns without changing it *)
HandlerReturn(t) ==
    /\ rpc[t].op = "Have"
    /\ rpc' = [rpc EXCEPT ![t] = Idle]
    /\ objs' = Reclaim(objs, sessions, rpc')
    /\ UNCHANGED <<sessions, mmu, nextID, last, now>>

(* RestartApp after GetSession: sess.Restart() up to its sleep *)
HandlerRestart(t) ==
    /\ rpc[t].op = "Have"
    /\ objs[rpc[t].id].mu = 0
    /\ \E closeFails \in BOOLEAN, started \in BOOLEAN :
        LET id == rpc[t].id
            r == Stop(objs[id].PTY, closeFails)
        IN  IF r.err
            THEN /\ rpc' = [rpc EXCEPT ![t] = Idle]
                 /\ objs' = Reclaim([objs EXCEPT ![id].PTY = r.p], sessions, rpc')
            ELSE /\ rpc' = [rpc EXCEPT ![t] = At("Restart_sleep", id)]
                 /\ objs' = [objs EXCEPT ![id] =
                        [State |-> IF started THEN "StateActive" ELSE "StateError",
                         LastActive |-> now,
                         PTY |-> IF started THEN Start(NewPTYWrapper) ELSE NewPTYWrapper,
                         mu |-> t]]
    /\ UNCHANGED <<sessions, mmu, nextID, last, now>>

(* sess.Restart(): the deferred Unlock *)
HandlerRestartReturn(t) ==
    /\ rpc[t].op = "Restart_sleep"
    /\ rpc' = [rpc EXCEPT ![t] = Idle]
    /\ objs' = Reclaim([objs EXCEPT ![rpc[t].id].mu = 0], sessions, rpc')
    /\ UNCHANGED <<sessions, mmu, nextID, last, now>>

(* RemoveSession: Lock and the lookup *)
RemoveSessionLock(t, id) ==
    /\ rpc[t].op = "idle" /\ CanLock
    /\ IF id \notin sessions
       THEN /\ last' = [op |-> "remove", id |-> id, out |-> "notfound"]
            /\ UNCHANGED <<mmu, rpc>>
       ELSE /\ mmu' = [mmu EXCEPT !.w = t]
            /\ rpc' = [rpc EXCEPT ![t] = At("Remove_close", id)]
            /\ UNCHANGED last
    /\ UNCHANGED <<sessions, objs, nextID, now>>

(* RemoveSession: session.Close(), delete unless Close failed, Unlock *)
RemoveSessionClose(t) ==
    /\ rpc[t].op = "Remove_close"
    /\ objs[rpc[t].id].mu = 0
    /\ \E closeFails \in BOOLEAN :
        LET id == rpc[t].id
            c == SessionClose(objs[id], closeFails)
        IN  /\ sessions' = IF c.err THEN sessions ELSE sessions \ {id}
            /\ last' = [op |-> "remove", id |-> id,
                        out |-> IF c.err THEN "closeerr" ELSE "ok"]
            /\ rpc' = [rpc EXCEPT ![t] = Idle]
            /\ objs' = Reclaim([objs EXCEPT ![id] = c.s], sessions', rpc')
    /\ mmu' = [mmu EXCEPT !.w = 0]
    /\ UNCHANGED <<nextID, now>>

(* CleanupIdleSessions: Lock, now := time.Now(), the range over m.sessions *)
CleanupLock(t) ==
    /\ rpc[t].op = "idle" /\ CanLock
    /\ mmu' = [mmu EXCEPT !.w = t]
    /\ rpc' = [rpc EXCEPT ![t] = [Idle EXCEPT !.op = "Sweep_loop", !.todo = sessions, !.at = now]]
    /\ UNCHANGED <<sessions, objs, nextID, last, now>>

(* CleanupIdleSessions: the next entry; session.LastActive is read without
   the Session's mutex *)
CleanupVisit(t) ==
    /\ rpc[t].op = "Sweep_loop"
    /\ \E id \in rpc[t].todo :
        LET idleTime == rpc[t].at - objs[id].LastActive
        IN  rpc' = [rpc EXCEPT ![t] =
                [op |-> IF IsIdle(idleTime) THEN "Sweep_close" ELSE "Sweep_loop",
                 id |-> id, todo |-> rpc[t].todo \ {id},
                 at |-> rpc[t].at, idleTime |-> idleTime,
                 cleaned |-> rpc[t].cleaned]]
    /\ UNCHANGED <<sessions, mmu, objs, nextID, last, now>>

(* CleanupIdleSessions: session.Close(), whose error is only logged, and
   delete *)
CleanupClose(t) ==
    /\ rpc[t].op = "Sweep_close"
    /\ objs[rpc[t].id].mu = 0
    /\ sessions' = sessions \ {rpc[t].id}
    /\ rpc' = [rpc EXCEPT ![t] = [@ EXCEPT !.op = "Sweep_loop", !.id = 0, !.idleTime = 0,
                                            !.cleaned = @ + 1]]
    /\ \E closeFails \in BOOLEAN :
        objs' = Reclaim([objs EXCEPT ![rpc[t].id] = SessionClose(@, closeFails).s],
                        sessions', rpc')
    /\ UNCHANGED <<mmu, nextID, last, now>>

(* CleanupIdleSessions: the range is over, the deferred Unlock *)
CleanupUnlock(t) ==
    /\ rpc[t].op = "Sweep_loop" /\ rpc[t].todo = {}
    /\ mmu' = [mmu EXCEPT !.w = 0]
    /\ rpc' = [rpc EXCEPT ![t] = Idle]
    /\ UNCHANGED <<sessions, objs, nextID, last, now>>

(* time passes *)
ClockTick ==
    /\ now < MaxTime
    /\ now' = now + 1
    /\ UNCHANGED registryVars

(* NewManager returned *)
NewManager ==
    /\ sessions = {}
    /\ mmu = [w |-> 0, r |-> {}]
    /\ objs = <<>>
    /\ nextID = 1
    /\ rpc = [t \in Tasks |-> Idle]
    /\ last = [op |-> "NewManager", id |-> 0, out |-> "ok"]

-----------------------------------------------------------------------------
(* The guard sb.mu of the ScreenBuffer.  Write takes it (Lock, deferred
   Unlock); Clear, which the parser calls from inside Write, does not, and
   Restart calls Clear with s.mu only.  Here Write and the Clear of Restart
   are taken apart into their beginning and their end, so that a state shows
   who is inside which.  A readLoop inside Write holds sb.mu. *)

(* the readLoop r is inside s.Buffer.Write, between Lock and Unlock *)
InWrite(r) == rd[r].pc = "Writing"

(* the task t is inside the s.Buffer.Clear() of Restart *)
InClear(t) == pc[t] = "Restart_clearing"

(* sb.mu is not held *)
GuardFree == \A r \in DOMAIN rd : ~InWrite(r)

(* the Write of r and a Clear have run at the same time *)
Raced(r) == "raced" \in DOMAIN rd[r] /\ rd[r].raced

(* readLoop: s.PTY.Read() returns bytes of the child *)
ReadGot(r) ==
    /\ rd[r].pc = "InRead"
    /\ ptys[rd[r].cur].pty = "open" /\ ptys[rd[r].cur].process = "running"
    /\ nops < MaxOps
    /\ \E data \in ChildOutput :
        rd' = [rd EXCEPT ![r] = [pc |-> "Write", cur |-> rd[r].cur, data |-> data]]
    /\ nops' = nops + 1
    /\ UNCHANGED <<State, PTY, LastActive, mu, ptys, pc, lastCtl, res, now, sb, prev, lastOp>>

(* ScreenBuffer.Write: sb.mu.Lock() *)
WriteBegin(r) ==
    /\ rd[r].pc = "Write"
    /\ GuardFree
    /\ rd' = [rd EXCEPT ![r] = [pc |-> "Writing", cur |-> rd[r].cur, data |-> rd[r].data,
                                seen |-> sb,
                                raced |-> \E t \in Tasks : InClear(t)]]
    /\ UNCHANGED <<State, PTY, LastActive, mu, ptys, pc, lastCtl, res, now, screenVars>>

(* ScreenBuffer.Write: storeRawData, Parse and the deferred Unlock.  After a
   race with Clear the cursor is the one of the Write on the cleared grid or
   the one Parse worked out from what it read before the Clear. *)
WriteEnd(r) ==
    /\ InWrite(r)
    /\ LET w == Write(sb, rd[r].data)
           old == Write(rd[r].seen, rd[r].data)
       IN  sb' \in {w} \cup (IF Raced(r) /\ ~old.panicked
                             THEN {[w EXCEPT !.cursorX = old.cursorX,
                                             !.cursorY = old.cursorY]}
                             ELSE {})
    /\ rd' = [rd EXCEPT ![r] = [pc |-> "Read", cur |-> rd[r].cur]]
    /\ UNCHANGED <<State, PTY, LastActive, mu, ptys, pc, lastCtl, res, now, prev, lastOp, nops>>

(* Session.Restart: Lock and PTY.Stop; when Stop fails Restart returns *)
RestartStopPTY(t) ==
    /\ pc[t] = "idle" /\ mu = 0
    /\ Len(ptys) < MaxPTYs
    /\ \E closeFails \in BOOLEAN :
        LET r == Stop(ptys[PTY], closeFails) IN
        /\ ptys' = [ptys EXCEPT ![PTY] = r.p]
        /\ IF r.err
           THEN /\ lastCtl' = "RestartErr"
                /\ UNCHANGED <<mu, pc>>
           ELSE /\ mu' = t
                /\ pc' = [pc EXCEPT ![t] = "Restart_clear"]
                /\ UNCHANGED lastCtl
    /\ UNCHANGED <<State, PTY, LastActive, rd, res, now, screenVars>>

(* Session.Restart: s.Buffer.Clear() begins; Clear takes no lock *)
ClearBegin(t) ==
    /\ pc[t] = "Restart_clear"
    /\ pc' = [pc EXCEPT ![t] = "Restart_clearing"]
    /\ rd' = [r \in DOMAIN rd |->
                IF InWrite(r) THEN [rd[r] EXCEPT !.raced = TRUE] ELSE rd[r]]
    /\ UNCHANGED <<State, PTY, LastActive, mu, ptys, lastCtl, res, now, screenVars>>

(* Session.Restart: s.Buffer.Clear() ends; NewPTYWrapper and the three
   assignments.  After a race with a Write that has ended, the cursor is
   (0, 0) or the one the Write stored after Clear had reset it. *)
ClearEnd(t) ==
    /\ InClear(t)
    /\ sb' \in {Clear(sb)}
              \cup (IF \E r \in DOMAIN rd : Raced(r) /\ ~InWrite(r)
                    THEN {[Clear(sb) EXCEPT !.cursorX = sb.cursorX,
                                            !.cursorY = sb.cursorY]}
                    ELSE {})
    /\ ptys' = Append(ptys, NewPTYWrapper)
    /\ rd' = Append([r \in DOMAIN rd |->
                        IF Raced(r) /\ ~InWrite(r)
                        THEN [pc |-> rd[r].pc, cur |-> rd[r].cur] ELSE rd[r]],
                    [pc |-> "None", cur |-> 0])
    /\ PTY' = Len(ptys) + 1
    /\ State' = "StateActive"
    /\ LastActive' = now
    /\ pc' = [pc EXCEPT ![t] = "Restart_start"]
    /\ UNCHANGED <<mu, lastCtl, res, now, prev, lastOp, nops>>

-----------------------------------------------------------------------------
(* sb.mu as a sync.RWMutex under Render("scrollback").  Render takes the
   read lock and, still holding it, calls GetScrollback, which takes the
   read lock again.  A Lock that has been called and waits for the readers
   to leave makes every later RLock wait behind it. *)

(* the task t holds sb.mu for reading inside Render *)
InRender(t) == pc[t] \in {"Render_rlocked", "Render_tail"}

(* the readLoop r has called sb.mu.Lock() in Write and waits *)
LockPending(r) == rd[r].pc = "WriteLock"

(* sb.mu.RLock() returns at once: no writer holds sb.mu and none waits *)
CanRLock == \A r \in DOMAIN rd : ~InWrite(r) /\ ~LockPending(r)

(* Session.GetScreen("scrollback") up to the RLock of Render: s.mu.RLock,
   the state check, sb.mu.RLock *)
GetScreenRender(t) ==
    /\ pc[t] = "idle" /\ mu = 0
    /\ IF State # "StateActive"
       THEN /\ res' = Returned("GetScreen", "notactive", NoSize)
            /\ UNCHANGED pc
       ELSE /\ CanRLock
            /\ pc' = [pc EXCEPT ![t] = "Render_rlocked"]
            /\ UNCHANGED res
    /\ UNCHANGED <<State, PTY, LastActive, mu, ptys, rd, lastCtl, now, screenVars>>

(* renderWithScrollback: scrollbackLines := sb.GetScrollback(), with its own
   RLock and RUnlock *)
RenderGetScrollback(t) ==
    /\ pc[t] = "Render_rlocked"
    /\ CanRLock
    /\ pc' = [pc EXCEPT ![t] = "Render_tail"]
    /\ UNCHANGED <<State, PTY, LastActive, mu, ptys, rd, lastCtl, res, now, screenVars>>

(* renderWithScrollback: the rows, renderPlain; the RUnlock of Render and
   the one of GetScreen *)
RenderReturn(t) ==
    /\ pc[t] = "Render_tail"
    /\ pc' = [pc EXCEPT ![t] = "idle"]
    /\ res' = Returned("GetScreen", "ok", NoSize)
    /\ UNCHANGED <<State, PTY, LastActive, mu, ptys, rd, lastCtl, now, screenVars>>

(* ScreenBuffer.Write: sb.mu.Lock() is called *)
WriteLock(r) ==
    /\ rd[r].pc = "Write"
    /\ rd' = [rd EXCEPT ![r].pc = "WriteLock"]
    /\ UNCHANGED <<State, PTY, LastActive, mu, ptys, pc, lastCtl, res, now, screenVars>>

(* ScreenBuffer.Write: sb.mu.Lock() returns, no reader and no writer being
   left *)
WriteAcquire(r) ==
    /\ LockPending(r)
    /\ GuardFree /\ \A t \in Tasks : ~InRender(t)
    /\ rd' = [rd EXCEPT ![r] = [pc |-> "Writing", cur |-> rd[r].cur, data |-> rd[r].data,
                                seen |-> sb, raced |-> FALSE]]
    /\ UNCHANGED <<State, PTY, LastActive, mu, ptys, pc, lastCtl, res, now, screenVars>>

-----------------------------------------------------------------------------
(* The handlers get_cursor_position and view_screen, from the point where
   GetSession has handed them the Session.  rpc[t] keeps what the handler
   holds between its calls, last the response.  The fields rendered and
   read of a response are not in the program: the cursor of the ScreenBuffer
   when Render ran and when GetCursorPosition ran. *)

(* ScreenBuffer.GetCursorPosition: return sb.cursorX, sb.cursorY *)
GetCursorPosition(s) == <<s.cursorX, s.cursorY>>

(* Session.GetCursorPosition: return s.Buffer.GetCursorPosition() *)
SessionGetCursorPosition(s) == GetCursorPosition(s)

CursorOf(s) == [x |-> s.cursorX, y |-> s.cursorY]

(* the formats validateFormat lets through that Render models *)
ViewFormats == {"plain", "passthrough"}

(* Handlers.GetCursorPosition: row, col := sess.GetCursorPosition() *)
HandlerGetCursorPosition(t) ==
    /\ rpc[t].op = "idle"
    /\ LET rc == SessionGetCursorPosition(sb)
       IN  last' = [op |-> "get_cursor_position", id |-> 0, out |-> "ok",
                    cursor |-> [row |-> rc[1], col |-> rc[2]],
                    read |-> CursorOf(sb)]
    /\ UNCHANGED <<sessions, mmu, objs, nextID, rpc>>

(* Handlers.ViewScreen: content, err := sess.GetScreen(format), which holds
   s.mu for reading and fails unless the Session is active *)
ViewScreenRender(t, format) ==
    /\ rpc[t].op = "idle" /\ mu = 0
    /\ IF State # "StateActive"
       THEN /\ last' = [op |-> "view_screen", id |-> 0, out |-> "notactive"]
            /\ UNCHANGED rpc
       ELSE /\ rpc' = [rpc EXCEPT ![t] = [op |-> "View_cursor", id |-> 0,
                                          content |-> Render(sb, format),
                                          rendered |-> CursorOf(sb)]]
            /\ UNCHANGED last
    /\ UNCHANGED <<sessions, mmu, objs, nextID>>

(* Handlers.ViewScreen: row, col := sess.GetCursorPosition() and the
   response *)
ViewScreenCursor(t) ==
    /\ rpc[t].op = "View_cursor"
    /\ LET rc == SessionGetCursorPosition(sb)
       IN  last' = [op |-> "view_screen", id |-> 0, out |-> "ok",
                    content |-> rpc[t].content,
                    cursor |-> [row |-> rc[1], col |-> rc[2]],
                    rendered |-> rpc[t].rendered,
                    read |-> CursorOf(sb)]
    /\ rpc' = [rpc EXCEPT ![t] = Idle]
    /\ UNCHANGED <<sessions, mmu, objs, nextID>>

-----------------------------------------------------------------------------
(* SpecScreen: a ScreenBuffer driven by Write and by its own methods *)

Dims == 1 .. MaxDim

IntMaxDigits == <<57, 57, 57>>                 \* "999", IntMax
IntMinDigits == <<45, 49, 48, 48, 48>>         \* "-1000", the least int

CSI(params, final) == <<ESC, 91>> \o params \o <<final>>

(* The chunks Write is given.  Single bytes: CR LF TAB BS and 'x'.  Two-byte
   escapes: ESC c D M E 7 8.  Cursor sequences: CSI A B C D with no parameter
   and with IntMax; CSI H with none, "999;999" and "-1000;-1000"; CSI 2;2 f;
   CSI G and CSI d with IntMax and with the least int; CSI s, CSI u.  Editing
   sequences: CSI 2 J, CSI K, CSI X, CSI 7 m, and CSI L M P @ with IntMax.
   And a CSI sequence cut in two by a chunk boundary.  Lines of output: "x\n" and "\nx\n". *)
ControlChunks == { <<CR>>, <<LF>>, <<TAB>>, <<BS>>, <<120>> }
LineChunks == { <<120, LF>>, <<LF, 120, LF>> }
EscapeChunks == { <<ESC, b>> : b \in {99, 68, 77, 69, 55, 56} }
CursorChunks ==
    { CSI(ps, f) : ps \in { <<>>, IntMaxDigits }, f \in {65, 66, 67, 68} }
    \cup { CSI(<<>>, 72),
           CSI(IntMaxDigits \o <<59>> \o IntMaxDigits, 72),
           CSI(IntMinDigits \o <<59>> \o IntMinDigits, 72),
           CSI(<<50, 59, 50>>, 102) }
    \cup { CSI(ps, f) : ps \in { IntMaxDigits, IntMinDigits }, f \in {71, 100} }
    \cup { CSI(<<>>, 115), CSI(<<>>, 117) }
EditChunks ==
    { CSI(<<50>>, 74), CSI(<<>>, 75), CSI(<<>>, 88), CSI(<<55>>, 109) }
    \cup { CSI(IntMaxDigits, f) : f \in {76, 77, 80, 64} }
SplitChunks == { <<ESC, 91, 57>>, <<57, 57, 67>> }

ScreenChunks ==
    ControlChunks \cup LineChunks \cup EscapeChunks \cup CursorChunks
    \cup EditChunks \cup SplitChunks

(* coordinates given to MoveCursor: left of, and right of, every grid *)
CoordArgs == {-1, MaxDim}

ScreenStep(op, s) ==
    /\ nops < MaxOps
    /\ ~sb.panicked
    /\ sb' = s
    /\ prev' = sb
    /\ lastOp' = op
    /\ nops' = nops + 1
    /\ UNCHANGED <<sessionVars, registryVars, now>>

ScreenWrite == \E data \in ScreenChunks : ScreenStep("Write", Write(sb, data))

ScreenMoveCursor ==
    \E x \in CoordArgs, y \in CoordArgs : ScreenStep("MoveCursor", MoveCursor(sb, x, y))

ScreenClear == ScreenStep("Clear", Clear(sb))

ScreenScrollUp == ScreenStep("ScrollUp", ScrollUp(sb))

ScreenScrollDown == ScreenStep("ScrollDown", ScrollDown(sb))

ScreenResize == \E w \in Dims, h \in Dims : ScreenStep("Resize", Resize(sb, w, h))

ScreenInsertLines ==
    \E y \in 0 .. sb.height - 1 : ScreenStep("InsertLines", InsertLines(sb, y, 1))

ScreenDeleteLines ==
    \E y \in 0 .. sb.height - 1 : ScreenStep("DeleteLines", DeleteLines(sb, y, 1))

ScreenInsertChars ==
    \E x \in 0 .. sb.width - 1, y \in 0 .. sb.height - 1 :
        ScreenStep("InsertChars", InsertChars(sb, x, y, 1))

ScreenDeleteChars ==
    \E x \in 0 .. sb.width - 1, y \in 0 .. sb.height - 1 :
        ScreenStep("DeleteChars", DeleteChars(sb, x, y, 1))

InitScreen ==
    /\ \E w \in Dims, h \in Dims : sb = NewScreenBuffer(w, h)
    /\ prev = sb
    /\ lastOp = "New"
    /\ nops = 0
    /\ NewSession
    /\ NewManager
    /\ now = 0

NextScreen ==
    \/ ScreenWrite
    \/ ScreenMoveCursor
    \/ ScreenClear
    \/ ScreenScrollUp
    \/ ScreenScrollDown
    \/ ScreenResize
    \/ ScreenInsertLines
    \/ ScreenDeleteLines
    \/ ScreenInsertChars
    \/ ScreenDeleteChars

SpecScreen == InitScreen /\ [][NextScreen]_vars

(* fmt.Sprintf("%d", d) for 0 < d < 100 *)
Decimal(d) ==
    IF d < 10 THEN <<48 + d>> ELSE <<48 + (d \div 10), 48 + (d % 10)>>

(* fmt.Sprintf("L%d\n", d) *)
Line(d) == <<76>> \o Decimal(d) \o <<LF>>

(* a blank ScreenBuffer that is written the lines L1, L2, ... one Write each;
   nops counts the lines written *)
InitLines ==
    /\ \E w \in 3 .. LinesWidth, h \in 1 .. LinesHeight : sb = NewScreenBuffer(w, h)
    /\ prev = sb
    /\ lastOp = "New"
    /\ nops = 0
    /\ NewSession
    /\ NewManager
    /\ now = 0

WriteLine ==
    /\ nops < MaxLines
    /\ sb' = Write(sb, Line(nops + 1))
    /\ prev' = sb
    /\ lastOp' = "Write"
    /\ nops' = nops + 1
    /\ UNCHANGED <<sessionVars, registryVars, now>>

NextLines == WriteLine

SpecLines == InitLines /\ [][NextLines]_vars

-----------------------------------------------------------------------------
(* SpecSession: one Session after NewSession, its controller tasks, its
   readLoop goroutines and its children *)

(* the widths and heights given to Session.Resize *)
ResizeArgs == {<<1, MaxDim>>, <<MaxDim, 1>>}

InitSession ==
    /\ NewSession
    /\ NewManager
    /\ now = 0
    /\ sb = NewScreenBuffer(MaxDim, MaxDim)
    /\ prev = sb
    /\ lastOp = "New"
    /\ nops = 0

NextSession ==
    \/ \E t \in Tasks : RestartStop(t) /\ UNCHANGED registryVars
    \/ \E t \in Tasks : RestartStart(t) /\ UNCHANGED registryVars
    \/ \E t \in Tasks : RestartReturn(t) /\ UNCHANGED registryVars
    \/ \E t \in Tasks : Close(t) /\ UNCHANGED registryVars
    \/ \E r \in DOMAIN rd : ReadCall(r) /\ UNCHANGED registryVars
    \/ \E r \in DOMAIN rd : ReadData(r) /\ UNCHANGED registryVars
    \/ \E r \in DOMAIN rd : ReadError(r) /\ UNCHANGED registryVars
    \/ \E r \in DOMAIN rd : ReadLoopExit(r) /\ UNCHANGED registryVars
    \/ \E p \in DOMAIN ptys : ChildExit(p) /\ UNCHANGED registryVars
    \/ Tick /\ UNCHANGED registryVars

SpecSession == InitSession /\ [][NextSession]_vars

(* one Session under its operations: the callers of SendKeys, Resize,
   GetScreen and Close, the readLoop and handleResize goroutines, the child *)
NextOps ==
    \/ \E t \in Tasks : CloseBlocked(t) /\ UNCHANGED registryVars
    \/ \E t \in Tasks : Close(t) /\ UNCHANGED registryVars
    \/ \E r \in DOMAIN ptys : ReadCall(r) /\ UNCHANGED registryVars
    \/ \E r \in DOMAIN ptys : ReadData(r) /\ UNCHANGED registryVars
    \/ \E r \in DOMAIN ptys : ReadError(r) /\ UNCHANGED registryVars
    \/ \E r \in DOMAIN ptys : ReadLoopExit(r) /\ UNCHANGED registryVars
    \/ \E p \in DOMAIN ptys : ChildExit(p) /\ UNCHANGED registryVars
    \/ \E p \in DOMAIN ptys : HandleResizeRecv(p) /\ UNCHANGED registryVars
    \/ \E p \in DOMAIN ptys : HandleResizeApply(p) /\ UNCHANGED registryVars
    \/ \E p \in DOMAIN ptys : HandleResizeStop(p) /\ UNCHANGED registryVars
    \/ \E t \in Tasks : SendKeys(t) /\ UNCHANGED registryVars
    \/ \E t \in Tasks : SendKeysReturn(t) /\ UNCHANGED registryVars
    \/ \E t \in Tasks, size \in ResizeArgs :
            SessionResize(t, size[1], size[2]) /\ UNCHANGED registryVars
    \/ \E t \in Tasks : GetScreen(t) /\ UNCHANGED registryVars

SpecOps == InitSession /\ [][NextOps]_vars

(* Session.Close going on once s.mu is free *)
CloseLocked(t) == pc[t] = "Close_lock" /\ Close(t)

(* The goroutines of the program are scheduled fairly and a goroutine
   waiting for a mutex gets it if the mutex is free again and again (the
   runtime hands a starving waiter the lock).  Nothing is assumed of the
   callers, nor of the child: it need not read, write or exit. *)
FairOps ==
    /\ \A t \in Tasks : SF_vars(CloseLocked(t) /\ UNCHANGED registryVars)
    /\ \A r \in 1 .. MaxPTYs :
        /\ WF_vars(r \in DOMAIN ptys /\ ReadCall(r) /\ UNCHANGED registryVars)
        /\ WF_vars(r \in DOMAIN ptys /\ ReadError(r) /\ UNCHANGED registryVars)
        /\ SF_vars(r \in DOMAIN ptys /\ ReadLoopExit(r) /\ UNCHANGED registryVars)
        /\ WF_vars(r \in DOMAIN ptys /\ HandleResizeRecv(r) /\ UNCHANGED registryVars)
        /\ SF_vars(r \in DOMAIN ptys /\ HandleResizeApply(r) /\ UNCHANGED registryVars)
        /\ SF_vars(r \in DOMAIN ptys /\ HandleResizeStop(r) /\ UNCHANGED registryVars)

SpecOpsFair == SpecOps /\ FairOps

-----------------------------------------------------------------------------
(* SpecView: one Session whose child prints, the readLoop that writes what
   it prints to the ScreenBuffer, and the tasks that call get_cursor_position
   and view_screen *)

(* what the child prints at a time: "x", a line feed *)
ViewOutput == { <<120>>, <<LF>> }

NextView ==
    \/ \E r \in DOMAIN rd : ReadCall(r) /\ UNCHANGED registryVars
    \/ \E r \in DOMAIN rd : ReadDataFrom(r, ViewOutput) /\ UNCHANGED registryVars
    \/ \E r \in DOMAIN rd : ReadError(r) /\ UNCHANGED registryVars
    \/ \E r \in DOMAIN rd : ReadLoopExit(r) /\ UNCHANGED registryVars
    \/ \E p \in DOMAIN ptys : ChildExit(p) /\ UNCHANGED registryVars
    \/ \E t \in Tasks : HandlerGetCursorPosition(t) /\ UNCHANGED <<screenVars, sessionVars, now>>
    \/ \E t \in Tasks, format \in ViewFormats :
            ViewScreenRender(t, format) /\ UNCHANGED <<screenVars, sessionVars, now>>
    \/ \E t \in Tasks : ViewScreenCursor(t) /\ UNCHANGED <<screenVars, sessionVars, now>>

SpecView == InitSession /\ [][NextView]_vars

-----------------------------------------------------------------------------
(* SpecExit: one Session whose child may exit by itself, under Restart,
   Close, SendKeys and GetScreen *)

NextExit ==
    \/ \E t \in Tasks : RestartStop(t) /\ UNCHANGED registryVars
    \/ \E t \in Tasks : RestartStart(t) /\ UNCHANGED registryVars
    \/ \E t \in Tasks : RestartReturn(t) /\ UNCHANGED registryVars
    \/ \E t \in Tasks : Close(t) /\ UNCHANGED registryVars
    \/ \E r \in DOMAIN rd : ReadCall(r) /\ UNCHANGED registryVars
    \/ \E r \in DOMAIN rd : ReadError(r) /\ UNCHANGED registryVars
    \/ \E r \in DOMAIN rd : ReadLoopExit(r) /\ UNCHANGED registryVars
    \/ \E p \in DOMAIN ptys : ChildExit(p) /\ UNCHANGED registryVars
    \/ \E t \in Tasks : SendKeys(t) /\ UNCHANGED registryVars
    \/ \E t \in Tasks : SendKeysReturn(t) /\ UNCHANGED registryVars
    \/ \E t \in Tasks : GetScreen(t) /\ UNCHANGED registryVars

SpecExit == InitSession /\ [][NextExit]_vars

(* A Restart that has begun goes on to its end, a readLoop goroutine takes
   its steps and gets s.mu if s.mu is free again and again, and a write to
   the master side that blocks returns once the child is gone: the kernel
   fails it with EIO when the other side is closed.  Nothing is assumed of
   the callers, nor of a child that runs. *)
FairExit ==
    /\ \A t \in Tasks :
        /\ WF_vars(RestartStart(t) /\ UNCHANGED registryVars)
        /\ WF_vars(RestartReturn(t) /\ UNCHANGED registryVars)
        /\ WF_vars(ptys[PTY].process # "running" /\ SendKeysReturn(t)
                                                 /\ UNCHANGED registryVars)
    /\ \A r \in 1 .. MaxPTYs :
        /\ WF_vars(r \in DOMAIN rd /\ ReadCall(r) /\ UNCHANGED registryVars)
        /\ WF_vars(r \in DOMAIN rd /\ ReadError(r) /\ UNCHANGED registryVars)
        /\ SF_vars(r \in DOMAIN rd /\ ReadLoopExit(r) /\ UNCHANGED registryVars)

SpecExitFair == SpecExit /\ FairExit

-----------------------------------------------------------------------------
(* SpecGuard: one Session under Restart while its readLoop goroutines write
   what the child printed *)

NextGuard ==
    \/ \E t \in Tasks : RestartStopPTY(t) /\ UNCHANGED registryVars
    \/ \E t \in Tasks : ClearBegin(t) /\ UNCHANGED registryVars
    \/ \E t \in Tasks : ClearEnd(t) /\ UNCHANGED registryVars
    \/ \E t \in Tasks : RestartStart(t) /\ UNCHANGED registryVars
    \/ \E t \in Tasks : RestartReturn(t) /\ UNCHANGED registryVars
    \/ \E r \in DOMAIN rd : ReadCall(r) /\ UNCHANGED registryVars
    \/ \E r \in DOMAIN rd : ReadGot(r) /\ UNCHANGED registryVars
    \/ \E r \in DOMAIN rd : WriteBegin(r) /\ UNCHANGED registryVars
    \/ \E r \in DOMAIN rd : WriteEnd(r) /\ UNCHANGED registryVars
    \/ \E r \in DOMAIN rd : ReadError(r) /\ UNCHANGED registryVars
    \/ \E r \in DOMAIN rd : ReadLoopExit(r) /\ UNCHANGED registryVars
    \/ \E p \in DOMAIN ptys : ChildExit(p) /\ UNCHANGED registryVars

SpecGuard == InitSession /\ [][NextGuard]_vars

-----------------------------------------------------------------------------
(* SpecParams: parseCSIParams applied to the contents of the escapeBuffer *)

(* the longest escapeBuffer that is parsed *)
MaxBufferLen == 4

(* the bytes of the escapeBuffer: "-", "1", "5", ";" and "?" *)
BufferBytes == {45, 49, 53, 59, 63}

RECURSIVE Buffers(_)
Buffers(n) ==
    IF n = 0 THEN { <<>> }
    ELSE Buffers(n - 1)
         \cup { Append(str, b) : str \in { r \in Buffers(n - 1) : Len(r) = n - 1 },
                                 b \in BufferBytes }

(* handleCSI on a final byte: params := p.parseCSIParams(p.escapeBuffer.String());
   res keeps the string and the parameters *)
ParseParamsCall(str) ==
    /\ res' = [op |-> "parseCSIParams", input |-> str, out |-> parseCSIParams(str)]
    /\ UNCHANGED <<State, PTY, LastActive, mu, ptys, rd, pc, lastCtl, now, screenVars>>

NextParams == \E str \in Buffers(MaxBufferLen) : ParseParamsCall(str) /\ UNCHANGED registryVars

SpecParams == InitSession /\ [][NextParams]_vars

-----------------------------------------------------------------------------
(* SpecColors: a blank ScreenBuffer that is written one SGR sequence
   38;5;i or 48;5;i *)

(* the greatest colour index *)
MaxColorIndex == 255

(* strconv.Itoa(d) for d < 1000 *)
Itoa(d) ==
    IF d < 100 THEN Decimal(d)
    ELSE <<48 + (d \div 100), 48 + ((d \div 10) % 10), 48 + (d % 10)>>

(* "38;5;i" and "48;5;i" *)
ExtendedColor(layer, i) == Itoa(layer) \o <<59, 53, 59>> \o Itoa(i)

(* Write(ESC [ layer ; 5 ; i m) on the new ScreenBuffer; res keeps layer
   and i *)
ColorWrite(layer, i) ==
    /\ lastOp = "New"
    /\ sb' = Write(sb, CSI(ExtendedColor(layer, i), 109))
    /\ prev' = sb
    /\ lastOp' = "Write"
    /\ nops' = nops + 1
    /\ res' = [op |-> "SGR", layer |-> layer, index |-> i]
    /\ UNCHANGED <<State, PTY, LastActive, mu, ptys, rd, pc, lastCtl, now, registryVars>>

NextColors == \E layer \in {38, 48}, i \in 0 .. MaxColorIndex : ColorWrite(layer, i)

SpecColors == InitScreen /\ [][NextColors]_vars

-----------------------------------------------------------------------------
(* SpecRender: one Session whose readLoop writes what the child prints while
   tasks call GetScreen("scrollback") *)

NextRender ==
    \/ \E t \in Tasks : GetScreenRender(t) /\ UNCHANGED registryVars
    \/ \E t \in Tasks : RenderGetScrollback(t) /\ UNCHANGED registryVars
    \/ \E t \in Tasks : RenderReturn(t) /\ UNCHANGED registryVars
    \/ \E r \in DOMAIN rd : ReadCall(r) /\ UNCHANGED registryVars
    \/ \E r \in DOMAIN rd : ReadGot(r) /\ UNCHANGED registryVars
    \/ \E r \in DOMAIN rd : WriteLock(r) /\ UNCHANGED registryVars
    \/ \E r \in DOMAIN rd : WriteAcquire(r) /\ UNCHANGED registryVars
    \/ \E r \in DOMAIN rd : WriteEnd(r) /\ UNCHANGED registryVars
    \/ \E r \in DOMAIN rd : ReadError(r) /\ UNCHANGED registryVars
    \/ \E r \in DOMAIN rd : ReadLoopExit(r) /\ UNCHANGED registryVars
    \/ \E p \in DOMAIN ptys : ChildExit(p) /\ UNCHANGED registryVars

SpecRender == InitSession /\ [][NextRender]_vars

(* Every goroutine that can take its next step takes it, and one that waits
   for sb.mu gets it if it can again and again.  Nothing is assumed of the
   callers of GetScreen, nor of the child. *)
FairRender ==
    /\ \A t \in Tasks :
        /\ SF_vars(RenderGetScrollback(t) /\ UNCHANGED registryVars)
        /\ WF_vars(RenderReturn(t) /\ UNCHANGED registryVars)
    /\ \A r \in 1 .. MaxPTYs :
        /\ WF_vars(r \in DOMAIN rd /\ WriteLock(r) /\ UNCHANGED registryVars)
        /\ SF_vars(r \in DOMAIN rd /\ WriteAcquire(r) /\ UNCHANGED registryVars)
        /\ WF_vars(r \in DOMAIN rd /\ WriteEnd(r) /\ UNCHANGED registryVars)

SpecRenderFair == SpecRender /\ FairRender

-----------------------------------------------------------------------------
(* SpecResize: one Session under Resize and Restart, with the handleResize
   goroutines of its PTYWrappers; the children neither print nor exit *)

NextResize ==
    \/ \E t \in Tasks : RestartStop(t) /\ UNCHANGED registryVars
    \/ \E t \in Tasks : RestartStart(t) /\ UNCHANGED registryVars
    \/ \E t \in Tasks : RestartReturn(t) /\ UNCHANGED registryVars
    \/ \E t \in Tasks, size \in ResizeArgs :
            SessionResize(t, size[1], size[2]) /\ UNCHANGED registryVars
    \/ \E p \in DOMAIN ptys : HandleResizeRecv(p) /\ UNCHANGED registryVars
    \/ \E p \in DOMAIN ptys : HandleResizeApply(p) /\ UNCHANGED registryVars
    \/ \E p \in DOMAIN ptys : HandleResizeStop(p) /\ UNCHANGED registryVars

SpecResize == InitSession /\ [][NextResize]_vars

-----------------------------------------------------------------------------
(* SpecRegistry: a Manager after NewManager, the tasks that call it and the
   handlers that use the Sessions it hands out *)

InitRegistry ==
    /\ NewManager
    /\ now = 0
    /\ NewSession
    /\ sb = NewScreenBuffer(MaxDim, MaxDim)
    /\ prev = sb
    /\ lastOp = "New"
    /\ nops = 0

NextRegistry ==
    \/ \E t \in Tasks : CreateSessionLock(t) /\ UNCHANGED <<screenVars, sessionVars>>
    \/ \E t \in Tasks : CreateSessionNew(t) /\ UNCHANGED <<screenVars, sessionVars>>
    \/ \E t \in Tasks, id \in IDs : GetSessionLock(t, id) /\ UNCHANGED <<screenVars, sessionVars>>
    \/ \E t \in Tasks : GetSessionUpdate(t) /\ UNCHANGED <<screenVars, sessionVars>>
    \/ \E t \in Tasks : HandlerReturn(t) /\ UNCHANGED <<screenVars, sessionVars>>
    \/ \E t \in Tasks : HandlerRestart(t) /\ UNCHANGED <<screenVars, sessionVars>>
    \/ \E t \in Tasks : HandlerRestartReturn(t) /\ UNCHANGED <<screenVars, sessionVars>>
    \/ \E t \in Tasks, id \in IDs : RemoveSessionLock(t, id) /\ UNCHANGED <<screenVars, sessionVars>>
    \/ \E t \in Tasks : RemoveSessionClose(t) /\ UNCHANGED <<screenVars, sessionVars>>
    \/ \E t \in Tasks : CleanupLock(t) /\ UNCHANGED <<screenVars, sessionVars>>
    \/ \E t \in Tasks : CleanupVisit(t) /\ UNCHANGED <<screenVars, sessionVars>>
    \/ \E t \in Tasks : CleanupClose(t) /\ UNCHANGED <<screenVars, sessionVars>>
    \/ \E t \in Tasks : CleanupUnlock(t) /\ UNCHANGED <<screenVars, sessionVars>>
    \/ ClockTick /\ UNCHANGED <<screenVars, sessionVars>>

SpecRegistry == InitRegistry /\ [][NextRegistry]_vars

-----------------------------------------------------------------------------
(* The key map.  A string is the sequence of its bytes; the names and the
   inputs are ASCII. *)

(* the map specialKeys, an entry per key *)
specialKeys ==
    {
      [name |-> <<69, 110, 116, 101, 114>>, seq |-> <<13>>],                   \* Enter
      [name |-> <<84, 97, 98>>, seq |-> <<9>>],                                \* Tab
      [name |-> <<66, 97, 99, 107, 115, 112, 97, 99, 101>>, seq |-> <<127>>],  \* Backspace
      [name |-> <<69, 115, 99, 97, 112, 101>>, seq |-> <<27>>],                \* Escape
      [name |-> <<83, 112, 97, 99, 101>>, seq |-> <<32>>],                     \* Space
      [name |-> <<68, 101, 108, 101, 116, 101>>, seq |-> <<27, 91, 51, 126>>], \* Delete
      [name |-> <<85, 112>>, seq |-> <<27, 91, 65>>],                          \* Up
      [name |-> <<68, 111, 119, 110>>, seq |-> <<27, 91, 66>>],                \* Down
      [name |-> <<82, 105, 103, 104, 116>>, seq |-> <<27, 91, 67>>],           \* Right
      [name |-> <<76, 101, 102, 116>>, seq |-> <<27, 91, 68>>],                \* Left
      [name |-> <<67, 116, 114, 108, 43, 65>>, seq |-> <<1>>],                 \* Ctrl+A
      [name |-> <<67, 116, 114, 108, 43, 66>>, seq |-> <<2>>],                 \* Ctrl+B
      [name |-> <<67, 116, 114, 108, 43, 67>>, seq |-> <<3>>],                 \* Ctrl+C
      [name |-> <<67, 116, 114, 108, 43, 68>>, seq |-> <<4>>],                 \* Ctrl+D
      [name |-> <<67, 116, 114, 108, 43, 69>>, seq |-> <<5>>],                 \* Ctrl+E
      [name |-> <<67, 116, 114, 108, 43, 70>>, seq |-> <<6>>],                 \* Ctrl+F
      [name |-> <<67, 116, 114, 108, 43, 71>>, seq |-> <<7>>],                 \* Ctrl+G
      [name |-> <<67, 116, 114, 108, 43, 72>>, seq |-> <<8>>],                 \* Ctrl+H
      [name |-> <<67, 116, 114, 108, 43, 73>>, seq |-> <<9>>],                 \* Ctrl+I
      [name |-> <<67, 116, 114, 108, 43, 74>>, seq |-> <<10>>],                \* Ctrl+J
      [name |-> <<67, 116, 114, 108, 43, 75>>, seq |-> <<11>>],                \* Ctrl+K
      [name |-> <<67, 116, 114, 108, 43, 76>>, seq |-> <<12>>],                \* Ctrl+L
      [name |-> <<67, 116, 114, 108, 43, 77>>, seq |-> <<13>>],                \* Ctrl+M
      [name |-> <<67, 116, 114, 108, 43, 78>>, seq |-> <<14>>],                \* Ctrl+N
      [name |-> <<67, 116, 114, 108, 43, 79>>, seq |-> <<15>>],                \* Ctrl+O
      [name |-> <<67, 116, 114, 108, 43, 80>>, seq |-> <<16>>],                \* Ctrl+P
      [name |-> <<67, 116, 114, 108, 43, 81>>, seq |-> <<17>>],                \* Ctrl+Q
      [name |-> <<67, 116, 114, 108, 43, 82>>, seq |-> <<18>>],                \* Ctrl+R
      [name |-> <<67, 116, 114, 108, 43, 83>>, seq |-> <<19>>],                \* Ctrl+S
      [name |-> <<67, 116, 114, 108, 43, 84>>, seq |-> <<20>>],                \* Ctrl+T
      [name |-> <<67, 116, 114, 108, 43, 85>>, seq |-> <<21>>],                \* Ctrl+U
      [name |-> <<67, 116, 114, 108, 43, 86>>, seq |-> <<22>>],                \* Ctrl+V
      [name |-> <<67, 116, 114, 108, 43, 87>>, seq |-> <<23>>],                \* Ctrl+W
      [name |-> <<67, 116, 114, 108, 43, 88>>, seq |-> <<24>>],                \* Ctrl+X
      [name |-> <<67, 116, 114, 108, 43, 89>>, seq |-> <<25>>],                \* Ctrl+Y
      [name |-> <<67, 116, 114, 108, 43, 90>>, seq |-> <<26>>],                \* Ctrl+Z
      [name |-> <<70, 49>>, seq |-> <<27, 79, 80>>],                           \* F1
      [name |-> <<70, 50>>, seq |-> <<27, 79, 81>>],                           \* F2
      [name |-> <<70, 51>>, seq |-> <<27, 79, 82>>],                           \* F3
      [name |-> <<70, 52>>, seq |-> <<27, 79, 83>>],                           \* F4
      [name |-> <<70, 53>>, seq |-> <<27, 91, 49, 53, 126>>],                  \* F5
      [name |-> <<70, 54>>, seq |-> <<27, 91, 49, 55, 126>>],                  \* F6
      [name |-> <<70, 55>>, seq |-> <<27, 91, 49, 56, 126>>],                  \* F7
      [name |-> <<70, 56>>, seq |-> <<27, 91, 49, 57, 126>>],                  \* F8
      [name |-> <<70, 57>>, seq |-> <<27, 91, 50, 48, 126>>],                  \* F9
      [name |-> <<70, 49, 48>>, seq |-> <<27, 91, 50, 49, 126>>],              \* F10
      [name |-> <<70, 49, 49>>, seq |-> <<27, 91, 50, 51, 126>>],              \* F11
      [name |-> <<70, 49, 50>>, seq |-> <<27, 91, 50, 52, 126>>],              \* F12
      [name |-> <<72, 111, 109, 101>>, seq |-> <<27, 91, 72>>],                \* Home
      [name |-> <<69, 110, 100>>, seq |-> <<27, 91, 70>>],                     \* End
      [name |-> <<80, 97, 103, 101, 85, 112>>, seq |-> <<27, 91, 53, 126>>],   \* PageUp
      [name |-> <<80, 97, 103, 101, 68, 111, 119, 110>>, seq |-> <<27, 91, 54, 126>>], \* PageDown
      [name |-> <<73, 110, 115, 101, 114, 116>>, seq |-> <<27, 91, 50, 126>>]  \* Insert
    }

KeyNames == { e.name : e \in specialKeys }

KeySeq(name) == (CHOOSE e \in specialKeys : e.name = name).seq

IsUpper(c) == c >= 65 /\ c <= 90
IsLower(c) == c >= 97 /\ c <= 122

(* strings.ToLower *)
ToLower(str) == [i \in 1 .. Len(str) |-> IF IsUpper(str[i]) THEN str[i] + 32 ELSE str[i]]

(* strings.ToUpper *)
ToUpper(str) == [i \in 1 .. Len(str) |-> IF IsLower(str[i]) THEN str[i] - 32 ELSE str[i]]

(* isSeparator of package strings: an ASCII byte that is not a letter, a
   digit or the underscore *)
IsSeparator(c) ==
    ~(IsUpper(c) \/ IsLower(c) \/ (c >= 48 /\ c <= 57) \/ c = 95)

(* strings.Title: the first letter of every word in upper case *)
Title(str) ==
    [i \in 1 .. Len(str) |->
        IF (i = 1 \/ IsSeparator(str[i - 1])) /\ IsLower(str[i])
        THEN str[i] - 32 ELSE str[i]]

(* MapKeys *)
MapKeys(input) ==
    IF input \in KeyNames THEN KeySeq(input)
    ELSE IF Title(ToLower(input)) \in KeyNames THEN KeySeq(Title(ToLower(input)))
    ELSE input

(* the inputs MapKeys is given: every key name as it is, in lower case, in
   upper case and with its first letter only in upper case; "hello", the
   empty string, "Enter " and "eNTER" *)
KeyInputs ==
    KeyNames
    \cup { ToLower(n) : n \in KeyNames }
    \cup { ToUpper(n) : n \in KeyNames }
    \cup { <<104, 101, 108, 108, 111>>, <<>>,
           <<69, 110, 116, 101, 114, 32>>, <<101, 78, 84, 69, 82>> }

(* a call of MapKeys; res keeps its input and its result *)
MapKeysCall(input) ==
    /\ res' = [op |-> "MapKeys", input |-> input, out |-> MapKeys(input)]
    /\ UNCHANGED <<State, PTY, LastActive, mu, ptys, rd, pc, lastCtl, now, screenVars>>

InitKeys == InitSession

NextKeys == \E input \in KeyInputs : MapKeysCall(input) /\ UNCHANGED registryVars

SpecKeys == InitKeys /\ [][NextKeys]_vars

-----------------------------------------------------------------------------
(* C1: after any sequence of Screen operations the cursor lies inside the
   current grid: 0 <= cursorX < width and 0 <= cursorY < height. *)
C1_CursorInBounds ==
    /\ 0 <= sb.cursorX /\ sb.cursorX < sb.width
    /\ 0 <= sb.cursorY /\ sb.cursorY < sb.height

(* C1 witness: the cursor stood in the last column and the last row of a
   grid that a Resize then made narrower and shorter. *)
C1_Witness ==
    /\ lastOp = "Resize"
    /\ prev.cursorX = prev.width - 1 /\ prev.cursorY = prev.height - 1
    /\ sb.width < prev.width /\ sb.height < prev.height

-----------------------------------------------------------------------------
(* C2: at every moment a Session has at most one live readLoop, across
   NewSession, Restart and Close: Restart never leaves the previous readLoop
   alive next to the new one, and no readLoop reads from a PTYWrapper other
   than the one it was started for. *)
C2_OneLiveReader ==
    /\ Cardinality(LiveReaders) <= 1
    /\ \A r \in LiveReaders : rd[r].pc = "InRead" => rd[r].cur = r

(* C3: once Restart has returned success, State is StateActive for as long as
   the new child runs and Close is not called; the failing read of the
   previous readLoop does not make it StateError. *)
C3_RestartedStaysActive ==
    (lastCtl = "RestartOK" /\ ptys[PTY].process = "running")
        => State = "StateActive"

(* C4: once Close has returned, State is StateStopped until a Restart begins;
   the failing read of the readLoop does not make it StateError. *)
C4_ClosedStaysStopped ==
    (lastCtl = "Close" /\ \A t \in Tasks : pc[t] = "idle")
        => State = "StateStopped"

(* C5: whenever State is StateStopped or StateError, the master side of the
   Session's PTYWrapper is not open and every readLoop has returned; also
   when the child exited by itself and the readLoop saw EOF. *)
C5_StoppedOrErrorIsTornDown ==
    State \in {"StateStopped", "StateError"}
        => /\ ptys[PTY].pty # "open"
           /\ LiveReaders = {}

-----------------------------------------------------------------------------
(* C6: a Session that is not, or no longer, in m.sessions has no running
   child, whatever the tasks that still hold the *Session do with it. *)
C6_NoChildOutsideRegistry ==
    \A id \in DOMAIN objs : id \notin sessions => objs[id].PTY.process # "running"

(* C7: m.sessions never has more than maxSessions entries; CreateSession goes
   on to NewSession only below maxSessions, and reports the capacity error
   only at maxSessions, leaving the Manager as it was. *)
C7_Capacity ==
    /\ [](Cardinality(sessions) <= maxSessions)
    /\ [][/\ \A t \in Tasks :
               (rpc[t].op = "idle" /\ rpc'[t].op = "Create_new")
                   => Cardinality(sessions) < maxSessions
          /\ (last' # last /\ last'.op = "create" /\ last'.out = "capacity")
                   => /\ Cardinality(sessions) = maxSessions
                      /\ sessions' = sessions /\ objs' = objs]_vars

(* C7 witness: three Sessions were created, so one was removed and a
   CreateSession succeeded after it; m.sessions is full again and a further
   CreateSession got the capacity error. *)
C7_Witness ==
    /\ last.op = "create" /\ last.out = "capacity"
    /\ Cardinality(sessions) = maxSessions
    /\ nextID > maxSessions + 1

(* C8: when RemoveSession(id) has returned, id is not in m.sessions: it was
   absent (the call failed and changed nothing) or it was present and was
   deleted. *)
C8_RemovedIsAbsent ==
    last.op = "remove" => last.id \notin sessions

(* C9: CleanupIdleSessions goes on to close and delete the Session it visits
   exactly when its now minus the Session's LastActive is greater than
   sessionTimeout; what it closes is Stopped, childless and out of
   m.sessions, and its steps leave every other Session in m.sessions and as
   it was. *)
C9_SweepExact ==
    [][\A t \in Tasks :
        (rpc[t].op \in {"Sweep_loop", "Sweep_close"} /\ rpc'[t] # rpc[t]) =>
            /\ (rpc[t].op = "Sweep_loop" /\ rpc'[t].op # "idle") =>
                    (rpc'[t].op = "Sweep_close"
                        <=> rpc[t].at - objs[rpc'[t].id].LastActive > sessionTimeout)
            /\ \A id \in sessions :
                    IF rpc[t].op = "Sweep_close" /\ id = rpc[t].id
                    THEN /\ id \notin sessions'
                         /\ id \in DOMAIN objs' =>
                                /\ objs'[id].State = "StateStopped"
                                /\ objs'[id].PTY.process # "running"
                    ELSE id \in sessions' /\ objs'[id] = objs[id]]_vars

(* C9 witness: one call of CleanupIdleSessions has closed one Session and has
   just passed over the other, which is still in m.sessions. *)
C9_Witness ==
    \E t \in Tasks :
        /\ rpc[t].op = "Sweep_loop" /\ rpc[t].todo = {}
        /\ rpc[t].cleaned = 1
        /\ rpc[t].id \in sessions
        /\ rpc[t].idleTime <= sessionTimeout

(* C10: no task holds m.mu while it runs an operation of a Session
   (NewSession in CreateSession, UpdateLastActive in GetSession, Close in
   RemoveSession and in CleanupIdleSessions), so that no task holding m.mu
   waits for the mutex of a Session. *)
C10_GuardCoversOnlyTheMap ==
    \A t \in Tasks :
        HoldsGuard(t) =>
            rpc[t].op \notin {"Create_new", "Get_update", "Remove_close", "Sweep_close"}


(* a step of Session.Resize that returns nil *)
ResizeReturnsNil ==
    /\ res'.op = "Resize" /\ res'.out = "ok"
    /\ nops' = nops + 1 /\ rd' = rd

(* C11: when Session.Resize(width, height) returns nil on an Active Session,
   the window size of the PTY is already (rows height, cols width): the
   size-change ioctl was applied before the call returned. *)
C11_ResizeAppliedAtReturn ==
    [][ResizeReturnsNil => ptys'[PTY'].winsize = res'.size]_vars

(* the handleResize goroutine of the Session's PTYWrapper has drained
   resizeChan and is back at its select; the last call on the Session was a
   Resize that returned nil *)
ResizeDrained ==
    /\ res.op = "Resize" /\ res.out = "ok"
    /\ State = "StateActive"
    /\ ptys[PTY].pty = "open" /\ ptys[PTY].stopChan = "open"
    /\ ptys[PTY].resizeChan = <<>> /\ ptys[PTY].hr = "Select"

(* C12: after a burst of Resize calls on an Active Session, once handleResize
   has drained resizeChan, the window size of the PTY is the size of the last
   Resize call, which is the size of the ScreenBuffer; an earlier size is
   never the one left applied. *)
C12_DrainedIsLatest ==
    ResizeDrained =>
        /\ ptys[PTY].winsize = res.size
        /\ ptys[PTY].winsize = [Rows |-> sb.height, Cols |-> sb.width]


(* C13: PTYWrapper.Stop is idempotent, whichever callers race for it: over
   any number of calls the child is killed and reaped once, the master side
   is closed once and stopChan is closed once (a stopped wrapper stays
   stopped, with no child and no open descriptor), and a call on a stopped
   wrapper returns nil and changes nothing. *)
C13_StopOnce ==
    /\ [](\A p \in DOMAIN ptys :
            /\ ptys[p].kills <= 1 /\ ptys[p].closes <= 1
            /\ ptys[p].stopChan = "closed" =>
                    /\ ptys[p].process \in {"nil", "reaped"}
                    /\ ptys[p].pty \in {"nil", "closed"}
                    /\ ptys[p].kills = (IF ptys[p].process = "nil" THEN 0 ELSE 1)
                    /\ ptys[p].closes = (IF ptys[p].pty = "nil" THEN 0 ELSE 1))
    /\ [][\A p \in DOMAIN ptys :
            ptys[p].stopChan = "closed" =>
                /\ ptys'[p].stopChan = "closed"
                /\ ptys'[p].kills = ptys[p].kills
                /\ ptys'[p].closes = ptys[p].closes]_vars
    /\ [][(res' # res /\ res'.op = "Close" /\ res'.stopped) =>
                (res'.out = "ok" /\ ptys' = ptys)]_vars

(* C13 witness: Close has called Stop on a PTYWrapper that an earlier call
   had stopped, and got nil *)
C13_Witness ==
    /\ res.op = "Close" /\ res.stopped /\ res.out = "ok"
    /\ ptys[PTY].kills = 1 /\ ptys[PTY].closes = 1


(* Session.Close was invoked: a caller waits for s.mu, or a call went through *)
CloseInvoked == lastCtl = "Close" \/ \E t \in Tasks : pc[t] = "Close_lock"

(* C14: after Close is invoked on an Active Session the call returns in the
   end, and the readLoop and handleResize goroutines of the Session exit,
   whatever other calls are in flight on the Session. *)
C14_CloseTerminates ==
    /\ \A t \in Tasks : (pc[t] = "Close_lock") ~> (pc[t] = "idle")
    /\ CloseInvoked ~>
            /\ \A r \in DOMAIN rd : rd[r].pc \in {"None", "Done"}
            /\ \A p \in DOMAIN ptys : ptys[p].hr \in {"None", "Done"}


(* C15: SendKeys and Resize on a Session whose State is StateStopped or
   StateError fail with "session is not active" and change nothing: nothing
   is written to the PTY, no size is put on resizeChan, and the size of the
   ScreenBuffer and the State are as before. *)
C15_NotActiveRejected ==
    [][(/\ res' # res
        /\ res'.op \in {"SendKeys", "Resize"}
        /\ State \in {"StateStopped", "StateError"}) =>
            /\ res'.out = "notactive"
            /\ ptys' = ptys /\ sb' = sb /\ State' = State]_vars

(* C15 witness: a Resize was refused on a Session that its readLoop had put
   in StateError *)
C15_Witness ==
    /\ res.op = "Resize" /\ res.out = "notactive"
    /\ State = "StateError"

(* C16: GetScreen has no precondition on the State: it returns the rendered
   ScreenBuffer in StateActive, StateStopped and StateError and never fails
   with "session is not active". *)
C16_SnapshotInEveryState ==
    res.op = "GetScreen" => res.out = "ok"


(* C17: whatever was written and scrolled, the scrollback holds at most
   maxScrollback rows, and GetScrollback returns the min(count, maxScrollback)
   rows evicted last, oldest first, count being the number of rows evicted so
   far: rows leave the scrollback in the order they came in. *)
C17_ScrollbackFIFO ==
    LET n == Len(sb.evicted)
        k == Min(n, maxScrollback)
    IN  /\ Len(GetScrollback(sb)) <= maxScrollback
        /\ GetScrollback(sb) = SubSeq(sb.evicted, n - k + 1, n)

(* C17 witness: more rows were evicted than the scrollback holds, and the
   rows it holds differ *)
C17_Witness ==
    /\ Len(sb.evicted) > maxScrollback
    /\ GetScrollback(sb)[1] # GetScrollback(sb)[maxScrollback]

(* C18: after every Write, whatever the size of the chunk, rawData is no
   longer than maxRawDataSize. *)
C18_RawLogCapped ==
    Len(sb.rawData) <= maxRawDataSize

(* C19: trimming rawData only drops the oldest bytes: after any Writes with
   no Clear in between, rawData is the last Len(rawData) bytes of all the
   bytes written, so the bytes written last are kept. *)
C19_RawLogIsStreamSuffix ==
    LET n == Len(sb.rawData)
        m == Len(sb.stream)
    IN  /\ n <= m
        /\ sb.rawData = SubSeq(sb.stream, m - n + 1, m)
        /\ m > 0 => n > 0

(* C19 witness: a Write has trimmed rawData *)
C19_Witness ==
    /\ lastOp = "Write"
    /\ Len(sb.rawData) < Len(sb.stream)
    /\ Len(prev.rawData) > 0

(* C20: Clear leaves the blank state, whatever came before: every cell is a
   blank cell with default colours, the cursor is at (0,0), rawData is empty,
   and the plain and the passthrough renderings are the empty string. *)
C20_ClearBlanks ==
    lastOp = "Clear" =>
        /\ \A y \in 0 .. sb.height - 1 : \A x \in 0 .. sb.width - 1 :
                CellAt(sb, x, y) = BlankCell
        /\ sb.cursorX = 0 /\ sb.cursorY = 0
        /\ sb.rawData = <<>>
        /\ Render(sb, "plain") = <<>>
        /\ Render(sb, "passthrough") = <<>>

(* C20 witness: Clear ran on a ScreenBuffer with a written cell, a moved
   cursor and bytes in rawData *)
C20_Witness ==
    /\ lastOp = "Clear"
    /\ prev.rawData # <<>>
    /\ Render(prev, "plain") # <<>>
    /\ prev.cursorX # 0


(* C21: Resize(W2, H2) followed by Resize(W, H) leaves every cell (x, y) of
   the grid with x < min(W, W2) and y < min(H, H2) as it was before the two
   calls. *)
C21_ResizeResizeKeepsCells ==
    ~sb.panicked =>
        \A W2 \in Dims, H2 \in Dims, W \in Dims, H \in Dims :
            LET twice == Resize(Resize(sb, W2, H2), W, H)
            IN  \A x \in 0 .. Min(Min(W, W2), sb.width) - 1 :
                \A y \in 0 .. Min(Min(H, H2), sb.height) - 1 :
                    CellAt(twice, x, y) = CellAt(sb, x, y)

(* C21 witness: Resize has changed the size of a grid with a written cell,
   and the cell is still there *)
C21_Witness ==
    /\ lastOp = "Resize"
    /\ prev.width # sb.width /\ prev.height # sb.height
    /\ CellAt(prev, 0, 0) # BlankCell
    /\ CellAt(sb, 0, 0) = CellAt(prev, 0, 0)


(* the text of grid row y and of a scrollback row: its runes without the
   blanks at the end *)
RowText(row) == TrimRight([x \in 1 .. Len(row) |-> row[x].Rune])

GridRow(s, y) == [x \in 1 .. s.width |-> CellAt(s, x - 1, y)]

ScrollbackRow(row) == [x \in 1 .. Cardinality(DOMAIN row) |-> row[x - 1]]

(* the text "L<d>" *)
Label(d) == <<76>> \o Decimal(d)

(* C22: after the MaxLines Writes "L1\n" .. "L30\n" (line feed only) to a
   blank 5x3 ScreenBuffer the rows on the grid read L28, L29, L30 and the
   scrollback holds L1 .. L27 in order (the last maxScrollback of them, the
   ring being that long). *)
C22_LinesScrolled ==
    (nops = MaxLines /\ sb.width = LinesWidth /\ sb.height = LinesHeight) =>
        /\ \A y \in 0 .. LinesHeight - 1 :
                RowText(GridRow(sb, y)) = Label(MaxLines - LinesHeight + 1 + y)
        /\ LET sbk == GetScrollback(sb)
               n == MaxLines - LinesHeight
           IN  /\ Len(sbk) = Min(n, maxScrollback)
               /\ \A i \in 1 .. Len(sbk) :
                    RowText(ScrollbackRow(sbk[i])) = Label(n - Len(sbk) + i)


(* C23: Restart discards the whole content of the ScreenBuffer, scrollback
   included: when Restart has returned nil and nothing was written since its
   Clear, GetScrollback returns no row. *)
C23_RestartDropsScrollback ==
    (/\ lastCtl = "RestartOK"
     /\ \A t \in Tasks : pc[t] = "idle"
     /\ sb.stream = <<>>) => GetScrollback(sb) = <<>>


(* C24: when the child cannot be started, CreateSession returns an error,
   m.sessions and the Sessions in it are as before, and neither a readLoop
   nor a handleResize goroutine is left running for the Session that
   failed. *)
C24_SpawnFailureLeavesNothing ==
    [][(last' # last /\ last'.op = "create" /\ last'.out = "spawn") =>
            /\ sessions' = sessions
            /\ \A id \in sessions : objs'[id] = objs[id]
            /\ last'.left = {}]_vars

(* C24 witness: a CreateSession failed to start its child while another
   Session was in m.sessions *)
C24_Witness ==
    /\ last.op = "create" /\ last.out = "spawn"
    /\ sessions # {}


(* C25: MapKeys returns the sequence of the map when the whole input is a
   key name, and returns the input as it is when the input is neither a key
   name nor a key name spelled in lower case. *)
C25_KeyMap ==
    res.op = "MapKeys" =>
        /\ res.input \in KeyNames => res.out = KeySeq(res.input)
        /\ (/\ res.input \notin KeyNames
            /\ res.input \notin { ToLower(n) : n \in KeyNames })
                => res.out = res.input


(* C26: the cursor that get_cursor_position and view_screen report has the
   cursor's y as its row and the cursor's x as its col. *)
C26_RowIsY ==
    (last.op \in {"get_cursor_position", "view_screen"} /\ last.out = "ok") =>
        /\ last.cursor.row = last.read.y
        /\ last.cursor.col = last.read.x


(* C29: the cursor in a view_screen response is the cursor the ScreenBuffer
   had when the content of the response was rendered. *)
C29_CursorOfRenderedState ==
    (last.op = "view_screen" /\ last.out = "ok") => last.read = last.rendered


(* the ScreenBuffer without its raw-byte log: grid, cursor, scrollback, the
   state of the parser and the graphic state *)
Parsed(s) == [s EXCEPT !.rawData = <<>>]

(* the byte streams that are written in three pieces: a cursor move
   followed by a line *)
Streams == { <<ESC, 91, 57, 57, 57, 67>> \o c : c \in LineChunks }

(* C28: a byte stream written in one call, in two calls or in three calls,
   wherever it is cut, leaves the same grid, cursor, scrollback, parser state
   and graphic state.  Every chunk is cut in two, every stream in three. *)
C28_ChunkingIndependent ==
    ~sb.panicked =>
        /\ \A data \in ScreenChunks : \A i \in 0 .. Len(data) :
                Parsed(Write(Write(sb, SubSeq(data, 1, i)),
                             SubSeq(data, i + 1, Len(data))))
                    = Parsed(Write(sb, data))
        /\ \A data \in Streams :
            LET whole == Parsed(Write(sb, data)) IN
            \A i \in 0 .. Len(data) :
                LET first == Write(sb, SubSeq(data, 1, i)) IN
                \A j \in i .. Len(data) :
                    Parsed(Write(Write(first, SubSeq(data, i + 1, j)),
                                 SubSeq(data, j + 1, Len(data)))) = whole

(* a cursor move cut after "ESC [ 9" has been written in two calls and has
   moved the cursor as the whole sequence does *)
C28_Witness ==
    /\ lastOp = "Write"
    /\ prev.state = "stateCSI" /\ prev.cursorX = 0 /\ prev.width = MaxDim
    /\ sb.state = "stateNormal" /\ sb.cursorX = MaxDim - 1
    /\ Parsed(sb) = Parsed(Write(NewScreenBuffer(sb.width, sb.height),
                                 <<ESC, 91, 57, 57, 57, 67>>))


(* the child of the PTYWrapper p has exited by itself *)
ExitedByItself(p) == p \in DOMAIN ptys /\ ptys[p].process = "exited"

(* C27 as stated: once the child has exited by itself the Session enters
   StateError, and from StateError on it is never active again, so that
   GetScreen and SendKeys fail for good. *)
C27_ExitIsFinal ==
    /\ \A p \in 1 .. MaxPTYs : ExitedByItself(p) ~> (State = "StateError")
    /\ [](State = "StateError" => [](State # "StateActive"))

(* C27: once the child of the Session's PTYWrapper has exited by itself the
   Session enters StateError, unless Restart replaces the PTYWrapper first;
   a Session that is not active becomes active by Restart only; GetScreen
   and SendKeys fail on a Session that is not active. *)
C27_ExitLeadsToError ==
    /\ \A p \in 1 .. MaxPTYs :
            (ExitedByItself(p) /\ PTY = p) ~> (State = "StateError" \/ PTY # p)
    /\ [][(State # "StateActive" /\ State' = "StateActive")
            => \E t \in Tasks : pc[t] = "idle" /\ pc'[t] = "Restart_start"]_vars
    /\ [][(res' # res /\ res'.op \in {"GetScreen", "SendKeys"} /\ State # "StateActive")
            => res'.out = "notactive"]_vars

(* the child has exited by itself, the readLoop has returned, the Session is
   in StateError and a call has failed *)
C27_Witness ==
    /\ ExitedByItself(PTY)
    /\ rd[PTY].pc = "Done"
    /\ State = "StateError"
    /\ res.op \in {"GetScreen", "SendKeys"} /\ res.out = "notactive"


(* C30: whoever changes the grid or the cursor of the ScreenBuffer holds
   sb.mu: no task is inside the Clear of Restart while a readLoop is inside
   Write. *)
C30_MutationsExclusive ==
    \A t \in Tasks : InClear(t) => \A r \in DOMAIN rd : ~InWrite(r)


(* the ScreenBuffer without the state and the escapeBuffer of its parser and
   without its raw-byte log: grid, cursor, scrollback, graphic state and
   saved cursor *)
ScreenOf(s) ==
    [s EXCEPT !.state = "stateNormal", !.escapeBuffer = <<>>,
              !.rawData = <<>>, !.stream = <<>>]

(* the longest run of parameter bytes that is fed after ESC [ *)
MaxParamBytes == 2

(* parameter bytes: the space, "1", ";" and "?" *)
ParamBytes == {32, 49, 59, 63}

RECURSIVE ParamRuns(_)
ParamRuns(n) ==
    IF n = 0 THEN { <<>> }
    ELSE ParamRuns(n - 1)
         \cup { Append(run, b) : run \in { r \in ParamRuns(n - 1) : Len(r) = n - 1 },
                                 b \in ParamBytes }

(* C31: ESC [ and parameter bytes with no final byte, fed to a parser in
   stateNormal, leave the grid, the cursor, the scrollback and the graphic
   state as they were; the parser is in stateCSI and holds the parameter
   bytes. *)
C31_CSIPrefixKeepsScreen ==
    (~sb.panicked /\ sb.state = "stateNormal") =>
        \A run \in ParamRuns(MaxParamBytes) :
            LET fed == Parse(sb, <<ESC, 91>> \o run)
            IN  /\ ScreenOf(fed) = ScreenOf(sb)
                /\ fed.state = "stateCSI"
                /\ fed.escapeBuffer = run

(* "ESC [ 9" has been written to a grid that holds a character *)
C31_Witness ==
    /\ lastOp = "Write"
    /\ prev.state = "stateNormal" /\ CellAt(prev, 0, 0) # BlankCell
    /\ sb.state = "stateCSI" /\ sb.escapeBuffer = <<57>>
    /\ ScreenOf(sb) = ScreenOf(prev)


(* C32: parseCSIParams gives one parameter for every entry of the string
   split on ";", in order: the number the entry spells, and 0 for an entry
   that is empty or spells no number. *)
C32_ParamsPositional ==
    (res.op = "parseCSIParams" /\ res.input # <<>>) =>
        LET parts == SplitSemi(res.input)
        IN  /\ Len(res.out) = Len(parts)
            /\ \A i \in 1 .. Len(parts) :
                    res.out[i] = IF parts[i] # <<>> /\ Atoi(parts[i]).ok
                                 THEN Atoi(parts[i]).n ELSE 0


(* C33: after the hard reset ESC c the grid is blank, the graphic state is
   the default one, and a restore (ESC 8, CSI u) that follows changes
   nothing. *)
C33_ResetEmptiesSavedCursor ==
    (~sb.panicked /\ sb.state = "stateNormal") =>
        LET reset == Parse(sb, <<ESC, 99>>)
        IN  /\ \A x \in 0 .. sb.width - 1, y \in 0 .. sb.height - 1 :
                    CellAt(reset, x, y) = BlankCell
            /\ reset.currentFG = DefaultColor /\ reset.currentBG = DefaultColor
            /\ reset.currentAttrs = NoAttributes
            /\ \A restore \in { <<ESC, 56>>, CSI(<<>>, 117) } :
                    Parse(reset, restore) = reset


(* the cells of row y *)
RowCells(s, y) == s.store[s.cells[y]]

(* n of InsertLines and DeleteLines after "if y + n > sb.height" *)
ClampedLines(s, y, n) == IF y + n > s.height THEN s.height - y ELSE n

(* C34: after DeleteLines(y, n), n clamped to the rows from y on, the rows
   above y are as they were, every row i from y to height - n - 1 holds what
   row i + n held, and the last n rows are blank. *)
C34_DeleteLinesShiftsUp ==
    ~sb.panicked =>
        \A y \in 0 .. sb.height - 1, n0 \in 1 .. MaxDim :
            LET n == ClampedLines(sb, y, n0)
                after == DeleteLines(sb, y, n0)
            IN  \A i \in 0 .. sb.height - 1 :
                    RowCells(after, i) =
                        IF i < y THEN RowCells(sb, i)
                        ELSE IF i < sb.height - n THEN RowCells(sb, i + n)
                        ELSE BlankRow(sb.width)

(* C35: after InsertLines(y, n), n clamped to the rows from y on, the rows
   above y are as they were, rows y to y + n - 1 are blank, and every row i
   from y + n on holds what row i - n held. *)
C35_InsertLinesShiftsDown ==
    ~sb.panicked =>
        \A y \in 0 .. sb.height - 1, n0 \in 1 .. MaxDim :
            LET n == ClampedLines(sb, y, n0)
                after == InsertLines(sb, y, n0)
            IN  \A i \in 0 .. sb.height - 1 :
                    RowCells(after, i) =
                        IF i < y THEN RowCells(sb, i)
                        ELSE IF i < y + n THEN BlankRow(sb.width)
                        ELSE RowCells(sb, i - n)


(* the levels of the 6x6x6 colour cube *)
CubeLevels == <<0, 51, 102, 153, 204, 255>>

(* the colour of index i: the basic palette, the bright palette, the cube,
   the grays *)
IndexedColor(i) ==
    IF i < 8 THEN ansiToColor(i)
    ELSE IF i < 16 THEN ansiBrightToColor(i - 8)
    ELSE IF i < 232
    THEN RGB(CubeLevels[((i - 16) \div 36) + 1],
             CubeLevels[(((i - 16) \div 6) % 6) + 1],
             CubeLevels[((i - 16) % 6) + 1])
    ELSE RGB(8 + (i - 232) * 10, 8 + (i - 232) * 10, 8 + (i - 232) * 10)

(* C36: SGR 38;5;i sets the foreground and SGR 48;5;i the background to the
   colour of index i, for every i of 0 .. 255: palette, bright palette, cube
   of levels 0 51 102 153 204 255, gray 8 + (i - 232) * 10; every channel is
   in 0 .. 255 and the other colour stays the default. *)
C36_IndexedColors ==
    res.op = "SGR" =>
        LET set == IF res.layer = 38 THEN sb.currentFG ELSE sb.currentBG
            other == IF res.layer = 38 THEN sb.currentBG ELSE sb.currentFG
        IN  /\ set = IndexedColor(res.index)
            /\ ~set.Default
            /\ set.R \in 0 .. 255 /\ set.G \in 0 .. 255 /\ set.B \in 0 .. 255
            /\ other = DefaultColor

(* the last gray has been set as the background *)
C36_Witness ==
    /\ res.op = "SGR" /\ res.layer = 48 /\ res.index = MaxColorIndex
    /\ sb.currentBG = RGB(238, 238, 238)
    /\ sb.state = "stateNormal"


(* C37: no two rows of the grid share their cells: SetCell(x, y, ...) changes
   the cell (x, y) and no cell of another row. *)
C37_RowsShareNothing ==
    ~sb.panicked =>
        \A x \in 0 .. sb.width - 1, y \in 0 .. sb.height - 1 :
            LET set == SetCell(sb, x, y, 120, DefaultColor, DefaultColor, NoAttributes)
            IN  /\ CellAt(set, x, y).Rune = 120
                /\ \A x2 \in 0 .. sb.width - 1, y2 \in 0 .. sb.height - 1 :
                        y2 # y => CellAt(set, x2, y2) = CellAt(sb, x2, y2)


(* C38: a Render("scrollback") that holds the read lock of sb.mu returns,
   also when a readLoop calls Write and waits for sb.mu meanwhile. *)
C38_ScrollbackRenderReturns ==
    \A t \in Tasks : (pc[t] = "Render_rlocked") ~> (pc[t] = "idle")


(* the two sequences that clear the whole screen: ESC c and CSI 2 J *)
FullClears == { <<ESC, 99>>, CSI(<<50>>, 74) }

(* C39: rawData is the part of the written bytes that follows the last full
   clear (ESC c or CSI 2 J), however the bytes were split into Write calls:
   bytes that follow the clear sequence in the same chunk are kept, as they
   are when they come in a Write of their own. *)
C39_RawLogFollowsLastClear ==
    (~sb.panicked /\ sb.state = "stateNormal") =>
        \A c \in FullClears : \A k \in { <<120>>, <<120, 121>> } :
            LET one == Write(sb, c \o k)
                two == Write(Write(sb, c), k)
            IN  /\ two.rawData = k
                /\ one.rawData = k


(* the size of the Screen as a Winsize *)
ScreenSize == [Rows |-> sb.height, Cols |-> sb.width]

(* no call on the Session is going on, and the handleResize goroutine of its
   PTYWrapper waits in its select with nothing left in resizeChan *)
ResizeIdle ==
    /\ mu = 0 /\ \A t \in Tasks : pc[t] = "idle"
    /\ ptys[PTY].pty = "open" /\ ptys[PTY].stopChan = "open"
    /\ ptys[PTY].resizeChan = <<>> /\ ptys[PTY].hr = "Select"

(* C40: whenever the Session is Active and its resize goroutine is idle, the
   window size of its PTY is the size of its Screen, after any Resize and
   Restart calls: a Restart after a Resize does not leave the new PTY at the
   default size while the Screen keeps the size of the Resize. *)
C40_WindowIsScreenSize ==
    (State = "StateActive" /\ ResizeIdle) => ptys[PTY].winsize = ScreenSize

====
